---- MODULE Spec2Model ----
(***************************************************************************)
(* The SSD1680 e-paper driver (modules/drivers/ssd1680.py) with its        *)
(* DriverState (modules/drivers/state.py) and the SPI transport            *)
(* (modules/hardware/spi.py), as a state machine whose actions are the     *)
(* driver's public operations.  Each action runs one call to completion:   *)
(* the commands it sends are collected in `trace`, an exception ends the   *)
(* call where the code raises it, and the fields the call had already      *)
(* assigned keep their new values.  The refreshes of the Canvas            *)
(* (modules/canvas.py) are the driver calls they hand over to.             *)
(***************************************************************************)
EXTENDS Integers, Sequences, FiniteSets, TLC

VARIABLES
    state,              \* DriverState.state
    has_basemap,        \* DriverState.has_basemap
    partial_count,      \* DriverState.partial_count
    partial_threshold,  \* DriverState.partial_threshold
    in_partial_mode,    \* DriverState.in_partial_mode
    is_initial,         \* DriverState.is_initial
    prev_buffer,        \* SSD1680._prev_buffer (<<>> stands for None)
    panel,              \* the controller: RAM window, address counters, BW RAM
    call,               \* the public call just made and its arguments
    trace,              \* what that call sent to the controller, in order
    refreshed,          \* update sequences of that call whose BUSY wait returned
    err,                \* "none", or the exception that call raised
    during,             \* DriverState.state while BUSY was high after each ACTIVATE of that call
    pre,                \* the fields above (and the two below) before that call
    last_refresh,       \* history: the sequence of the last refresh that completed
    partials_since_full,\* history: partial refreshes completed since the last full one
    has_miso,           \* SPIDevice.has_miso: the transport was built with a MISO pin
    depth,              \* Canvas._buffer.depth: 1 (mono) or 2 (four colors)
    inversion,          \* history: first UPDATE_CTRL1 byte of the last set_invert that
                        \* returned and no refresh has been activated since; else -1
    fb,                 \* Canvas._buffer: the DrawBuffer (depth, rotation, bytes)
    text                \* Canvas._text: the TextRenderer (font stack, glyph cache)

vars == <<state, has_basemap, partial_count, partial_threshold, in_partial_mode,
          is_initial, prev_buffer, panel, call, trace, refreshed, err, during, pre,
          last_refresh, partials_since_full, has_miso, depth, inversion, fb,
          text>>

-----------------------------------------------------------------------------
(* Bounds of the model.  The panel is 16 bytes by 296 rows in the source;  *)
(* the model keeps the layout (row-major, stride = width in bytes) on a    *)
(* small panel.                                                            *)
WidthBytes == 2
PanelRows == 2
MaxThreshold == 2
MaxPartialCount == 3
MaxFailAt == 7
TimeoutTicks == 1
MaxTick == 2
MaxItems == 60
MaxCache == 5
MaxFonts == 2

WIDTH == 8 * WidthBytes
HEIGHT == PanelRows
BUFFER_SIZE == (WIDTH \div 8) * HEIGHT

-----------------------------------------------------------------------------
(* DisplayState *)
UNINITIALIZED == 0
READY == 1
UPDATING == 2
SLEEPING == 3

(* commands.py *)
CMD_DRIVER_OUTPUT == 1
CMD_VGH == 3
CMD_VSH_VSL == 4
CMD_SOFT_START == 12
CMD_GATE_SCAN_START == 15
CMD_DEEP_SLEEP == 16
CMD_DATA_ENTRY == 17
CMD_SW_RESET == 18
CMD_HV_READY == 20
CMD_VCI_DETECT == 21
CMD_TEMP_SENSOR == 24
CMD_TEMP_READ == 27
CMD_ACTIVATE == 32
CMD_UPDATE_CTRL1 == 33
CMD_UPDATE_CTRL2 == 34
CMD_RAM_BLACK == 36
CMD_RAM_RED == 38
CMD_VCOM == 44
CMD_OTP_DISPLAY == 45
CMD_OTP_USER_ID == 46
CMD_STATUS == 47
CMD_LUT == 50
CMD_CRC_CALC == 52
CMD_CRC_STATUS == 53
CMD_BORDER == 60
CMD_RAM_X == 68
CMD_RAM_Y == 69
CMD_AUTO_WRITE_RED == 70
CMD_AUTO_WRITE_BW == 71
CMD_RAM_X_CNT == 78
CMD_RAM_Y_CNT == 79

(* sequences.py *)
SEQ_FULL == 247
SEQ_CUSTOM_LUT == 199
SEQ_PARTIAL == 252
SEQ_POWER_ON == 224
SEQ_POWER_OFF == 131
SEQ_LOAD_TEMP == 177
SLEEP_MODE_1 == 1
SLEEP_MODE_2 == 3
DEFAULT_VGH == 23
DEFAULT_VSH1 == 65
DEFAULT_VSH2 == 168
DEFAULT_VSL == 50
DEFAULT_VCOM == 80
TEMP_SENSOR_INTERNAL == 128
SOFT_START_DEFAULT == <<139, 156, 150, 15>>
BORDER_FULL == 5
BORDER_PARTIAL == 128
DATA_ENTRY_INC == 3

(* The RST pulse of SPIDevice.hardware_reset, as an entry of the trace. *)
HW_RESET == -1

(* lut[:153] in _set_waveform *)
LUT_SIZE == 153

-----------------------------------------------------------------------------
(* Python's sequence operations, 0-based with clamped slice bounds. *)
Min(a, b) == IF a < b THEN a ELSE b
Max(a, b) == IF a > b THEN a ELSE b

PySlice(s, a, b) ==
    LET lo == Min(a, Len(s))
        hi == Min(b, Len(s))
    IN  IF hi <= lo THEN <<>> ELSE SubSeq(s, lo + 1, hi)

PySliceAssign(s, a, b, v) ==
    LET lo == Min(a, Len(s))
        hi == Max(lo, Min(b, Len(s)))
    IN  SubSeq(s, 1, lo) \o v \o SubSeq(s, hi + 1, Len(s))

(* bytes([color]) * n *)
Fill(color, n) == [i \in 1..n |-> color]

-----------------------------------------------------------------------------
(* The controller as the driver's commands see it: the RAM window set by   *)
(* RAM_X / RAM_Y (x in bytes), the address counters set by RAM_X_CNT /     *)
(* RAM_Y_CNT, and the BW RAM.  Data entry mode is DATA_ENTRY_INC: a byte   *)
(* is stored at the counters, x advances, and at the window's end x        *)
(* returns to its start and y advances (at the last row, to the first).    *)
(* A RED RAM write moves the counters the same way; its bytes are not      *)
(* kept.  The RAM keeps its contents over a reset.  ctrl1 is the first     *)
(* byte of the Display Update Control 1 register (the RAM inversion bits); *)
(* `programmed` holds the window and counter commands received since the   *)
(* last reset.  A reset puts the registers back to their power-on values.  *)
(* The border waveform register is followed where the panel record has a   *)
(* border field: the byte last written since the last reset (-1: none).    *)
RECURSIVE RamWrite(_, _, _, _)
RamWrite(p, data, i, store) ==
    IF i > Len(data) THEN p
    ELSE LET inside == p.cx < WIDTH \div 8 /\ p.cy < HEIGHT
             ram == IF store /\ inside
                    THEN [p.ram_bw EXCEPT ![p.cy * (WIDTH \div 8) + p.cx + 1] = data[i]]
                    ELSE p.ram_bw
             wrap == p.cx >= p.xe
             nx == IF wrap THEN p.xs ELSE p.cx + 1
             ny == IF ~wrap THEN p.cy
                   ELSE IF p.cy >= p.ye THEN p.ys ELSE p.cy + 1
         IN  RamWrite([p EXCEPT !.ram_bw = ram, !.cx = nx, !.cy = ny], data, i + 1, store)

PanelReset(p) ==
    LET q == [p EXCEPT !.xs = 0, !.xe = WIDTH \div 8 - 1, !.ys = 0,
                       !.ye = HEIGHT - 1, !.cx = 0, !.cy = 0, !.ctrl1 = 0,
                       !.programmed = {}]
    IN  IF "border" \in DOMAIN p THEN [q EXCEPT !.border = -1] ELSE q

PanelApply(p, cmd, data) ==
    CASE cmd = CMD_SW_RESET -> PanelReset(p)
      [] cmd = HW_RESET -> PanelReset(p)
      [] cmd = CMD_RAM_X -> [p EXCEPT !.xs = data[1], !.xe = data[2],
                                      !.programmed = @ \cup {cmd}]
      [] cmd = CMD_RAM_Y -> [p EXCEPT !.ys = data[1] + 256 * data[2],
                                      !.ye = data[3] + 256 * data[4],
                                      !.programmed = @ \cup {cmd}]
      [] cmd = CMD_RAM_X_CNT -> [p EXCEPT !.cx = data[1], !.programmed = @ \cup {cmd}]
      [] cmd = CMD_RAM_Y_CNT -> [p EXCEPT !.cy = data[1] + 256 * data[2],
                                          !.programmed = @ \cup {cmd}]
      [] cmd = CMD_UPDATE_CTRL1 -> [p EXCEPT !.ctrl1 = data[1]]
      [] cmd = CMD_BORDER -> IF "border" \in DOMAIN p
                             THEN [p EXCEPT !.border = data[1]] ELSE p
      [] cmd = CMD_RAM_BLACK -> RamWrite(p, data, 1, TRUE)
      [] cmd = CMD_RAM_RED -> RamWrite(p, data, 1, FALSE)
      [] cmd = CMD_AUTO_WRITE_BW ->
            [p EXCEPT !.ram_bw = Fill(IF (data[1] \div 128) % 2 = 1 THEN 255 ELSE 0,
                                      BUFFER_SIZE)]
      [] OTHER -> p

-----------------------------------------------------------------------------
(* A call in progress is a record m: the DriverState fields, _prev_buffer, *)
(* the panel, the trace so far, the exception raised (err), the number of  *)
(* wait_ready calls made (waits) and the one at which BUSY stays high      *)
(* (fail_at, 0 for none).  Once err is set the rest of the call is         *)
(* skipped: every operator below returns m unchanged.                      *)
Ok(m) == m.err = "none"

Raise(m, e) == IF Ok(m) THEN [m EXCEPT !.err = e] ELSE m

(* The transfer of a command byte and its data with the bus locked. *)
spi_write(m, cmd, data) ==
    IF ~Ok(m) THEN m
    ELSE [m EXCEPT !.trace = Append(@, [cmd |-> cmd, data |-> data]),
                   !.panel = PanelApply(@, cmd, data)]

(* SPIDevice.write_command: when BUSY is high it calls wait_ready first.   *)
(* BUSY is low whenever the driver sends a command (each command that      *)
(* raises it is followed by a wait_ready) unless the line stays high:      *)
(* busy_at is the number of the transfer, counted with the hardware resets *)
(* of the trace, before which BUSY is high and that wait_ready times out   *)
(* (0 for none).                                                           *)
write_command(m, cmd, data) ==
    IF ~Ok(m) THEN m
    ELSE IF m.busy_at = Len(m.trace) + 1 THEN Raise(m, "Timeout")
    ELSE spi_write(m, cmd, data)

RECURSIVE write_commands(_, _)
write_commands(m, cmds) ==
    IF cmds = <<>> THEN m
    ELSE write_commands(write_command(m, cmds[1][1], cmds[1][2]), Tail(cmds))

(* SPIDevice.hardware_reset *)
hardware_reset(m) ==
    IF ~Ok(m) THEN m
    ELSE [m EXCEPT !.trace = Append(@, [cmd |-> HW_RESET, data |-> <<>>]),
                   !.panel = PanelApply(@, HW_RESET, <<>>)]

(* SPIDevice.wait_ready: returns when BUSY goes low, raises when the       *)
(* timeout passes first.                                                   *)
wait_ready(m) ==
    IF ~Ok(m) THEN m
    ELSE IF m.waits + 1 = m.fail_at
         THEN [m EXCEPT !.waits = @ + 1, !.err = "Timeout"]
         ELSE [m EXCEPT !.waits = @ + 1]

-----------------------------------------------------------------------------
(* DriverState *)
on_init_complete(m) ==
    IF ~Ok(m) THEN m ELSE [m EXCEPT !.state = READY]

(* A completion that forgets to reset the partial counter. *)
on_full_refresh_complete_keeping_count(m) ==
    IF ~Ok(m) THEN m
    ELSE [m EXCEPT !.state = READY, !.has_basemap = TRUE, !.is_initial = FALSE,
                   !.in_partial_mode = FALSE]

(* An on_full_refresh_complete that leaves is_initial as it was. *)
on_full_refresh_complete_keeping_initial(m) ==
    IF ~Ok(m) THEN m
    ELSE [m EXCEPT !.state = READY, !.has_basemap = TRUE,
                   !.partial_count = 0, !.in_partial_mode = FALSE]

on_full_refresh_complete(m) ==
    IF ~Ok(m) THEN m
    ELSE [m EXCEPT !.state = READY, !.has_basemap = TRUE, !.is_initial = FALSE,
                   !.partial_count = 0, !.in_partial_mode = FALSE]

(* An on_partial_refresh_complete that also runs when the refresh raised *)
(* (as in a finally clause).                                             *)
on_partial_refresh_complete_in_finally(m) ==
    [m EXCEPT !.state = READY, !.partial_count = @ + 1]

on_partial_refresh_complete(m) ==
    IF ~Ok(m) THEN m
    ELSE [m EXCEPT !.state = READY, !.partial_count = @ + 1]

(* An on_sleep that never drops the basemap. *)
on_sleep_keeping_basemap(m, retain_ram) ==
    IF Ok(m)
    THEN [m EXCEPT !.state = SLEEPING, !.in_partial_mode = FALSE]
    ELSE m

on_sleep(m, retain_ram) ==
    IF ~Ok(m) THEN m
    ELSE [m EXCEPT !.state = SLEEPING, !.in_partial_mode = FALSE,
                   !.has_basemap = IF retain_ram THEN @ ELSE FALSE]

on_wake(m) ==
    IF ~Ok(m) THEN m
    ELSE [m EXCEPT !.state = UNINITIALIZED, !.in_partial_mode = FALSE]

(* A decision that looks at the threshold only. *)
needs_full_refresh_threshold_only(m) ==
    m.partial_threshold > 0 /\ m.partial_count >= m.partial_threshold

(* A decision that escalates one refresh late. *)
needs_full_refresh_one_late(m) ==
    \/ m.is_initial
    \/ ~m.has_basemap
    \/ (m.partial_threshold > 0 /\ m.partial_count > m.partial_threshold)

needs_full_refresh(m) ==
    \/ m.is_initial
    \/ ~m.has_basemap
    \/ (m.partial_threshold > 0 /\ m.partial_count >= m.partial_threshold)

can_partial_refresh(m) == m.has_basemap /\ ~m.is_initial

set_in_partial_mode(m, v) ==
    IF ~Ok(m) THEN m ELSE [m EXCEPT !.in_partial_mode = v]

(* `if self._prev_buffer:` is false for None and for an empty bytearray. *)
has_prev(m) == Len(m.prev_buffer) > 0

(* self._prev_buffer[:] = data, under `if self._prev_buffer:` *)
set_prev_buffer(m, data) ==
    IF Ok(m) /\ has_prev(m) THEN [m EXCEPT !.prev_buffer = data] ELSE m

-----------------------------------------------------------------------------
(* SSD1680: initialization *)
(* A window whose last column is one byte too far. *)
_set_window_one_byte_wide(m, x, y, w0, h0) ==
    LET w == IF w0 = 0 THEN WIDTH ELSE w0
        h == IF h0 = 0 THEN HEIGHT ELSE h0
        x_bytes == x \div 8
        x_end == (x + w) \div 8
        y_end == y + h - 1
    IN  write_commands(m, <<
            <<CMD_RAM_X, <<x_bytes, x_end>> >>,
            <<CMD_RAM_Y, <<y % 256, y \div 256, y_end % 256, y_end \div 256>> >>,
            <<CMD_RAM_X_CNT, <<x_bytes>> >>,
            <<CMD_RAM_Y_CNT, <<y % 256, y \div 256>> >> >>)

_set_window(m, x, y, w0, h0) ==
    LET w == IF w0 = 0 THEN WIDTH ELSE w0
        h == IF h0 = 0 THEN HEIGHT ELSE h0
        x_bytes == x \div 8
        x_end == (x + w - 1) \div 8
        y_end == y + h - 1
    IN  write_commands(m, <<
            <<CMD_RAM_X, <<x_bytes, x_end>> >>,
            <<CMD_RAM_Y, <<y % 256, y \div 256, y_end % 256, y_end \div 256>> >>,
            <<CMD_RAM_X_CNT, <<x_bytes>> >>,
            <<CMD_RAM_Y_CNT, <<y % 256, y \div 256>> >> >>)

_init_full(m) ==
    LET m1 == IF m.state = SLEEPING THEN on_wake(hardware_reset(m)) ELSE m
        h == HEIGHT - 1
        m2 == wait_ready(write_command(wait_ready(m1), CMD_SW_RESET, <<>>))
        m3 == write_commands(m2, <<
                  <<CMD_DRIVER_OUTPUT, <<h % 256, h \div 256, 0>> >>,
                  <<CMD_DATA_ENTRY, <<DATA_ENTRY_INC>> >>,
                  <<CMD_RAM_X, <<0, WIDTH \div 8 - 1>> >>,
                  <<CMD_RAM_Y, <<0, 0, h % 256, h \div 256>> >>,
                  <<CMD_BORDER, <<BORDER_FULL>> >>,
                  <<CMD_UPDATE_CTRL1, <<0, 128>> >>,
                  <<CMD_TEMP_SENSOR, <<TEMP_SENSOR_INTERNAL>> >>,
                  <<CMD_SOFT_START, SOFT_START_DEFAULT>>,
                  <<CMD_RAM_X_CNT, <<0>> >>,
                  <<CMD_RAM_Y_CNT, <<0, 0>> >> >>)
    IN  IF m1.state = READY /\ ~m1.in_partial_mode
        THEN m1
        ELSE set_in_partial_mode(on_init_complete(wait_ready(m3)), FALSE)

(* w = 0 and h = 0 stand for the defaults None: `w or self.WIDTH` treats   *)
(* both alike.                                                             *)
_init_partial(m, x, y, w0, h0) ==
    LET w == IF w0 = 0 THEN WIDTH ELSE w0
        h == IF h0 = 0 THEN HEIGHT ELSE h0
        gh == HEIGHT - 1
        m1 == wait_ready(on_wake(hardware_reset(m)))
        m2 == write_commands(m1, <<
                  <<CMD_DRIVER_OUTPUT, <<gh % 256, gh \div 256, 0>> >>,
                  <<CMD_DATA_ENTRY, <<DATA_ENTRY_INC>> >>,
                  <<CMD_BORDER, <<BORDER_PARTIAL>> >>,
                  <<CMD_UPDATE_CTRL1, <<0, 128>> >>,
                  <<CMD_TEMP_SENSOR, <<TEMP_SENSOR_INTERNAL>> >>,
                  <<CMD_SOFT_START, SOFT_START_DEFAULT>> >>)
    IN  IF m.in_partial_mode /\ m.state # SLEEPING /\ m.state = READY
        THEN _set_window(m, x, y, w, h)
        ELSE IF m.state = READY /\ m.state # SLEEPING
        THEN set_in_partial_mode(
                 _set_window(write_command(m, CMD_BORDER, <<BORDER_PARTIAL>>), x, y, w, h),
                 TRUE)
        ELSE set_in_partial_mode(on_init_complete(_set_window(m2, x, y, w, h)), TRUE)

(* An _update that triggers the controller before it selects the sequence. *)
_update_activate_first(m, mode) ==
    LET m0 == write_commands(m, <<
                  <<CMD_ACTIVATE, <<>> >>,
                  <<CMD_UPDATE_CTRL2, <<mode>> >> >>)
        m1 == wait_ready(IF Ok(m0) THEN [m0 EXCEPT !.during = Append(@, m0.state)]
                         ELSE m0)
    IN  IF Ok(m1) THEN [m1 EXCEPT !.refreshed = Append(@, mode)] ELSE m1

(* `during` records DriverState.state as it is while the controller is     *)
(* busy with the sequence, `refreshed` the sequence once its BUSY wait has *)
(* returned.                                                               *)
_update(m, mode) ==
    LET m0 == write_commands(m, <<
                  <<CMD_UPDATE_CTRL2, <<mode>> >>,
                  <<CMD_ACTIVATE, <<>> >> >>)
        m1 == wait_ready(IF Ok(m0) THEN [m0 EXCEPT !.during = Append(@, m0.state)]
                         ELSE m0)
    IN  IF Ok(m1) THEN [m1 EXCEPT !.refreshed = Append(@, mode)] ELSE m1

-----------------------------------------------------------------------------
(* SSD1680: power management *)
_power_off(m) ==
    IF m.state = SLEEPING THEN m
    ELSE wait_ready(write_commands(m, <<
             <<CMD_UPDATE_CTRL2, <<SEQ_POWER_OFF>> >>,
             <<CMD_ACTIVATE, <<>> >> >>))

sleep(m, retain_ram) ==
    IF m.state = SLEEPING THEN m
    ELSE on_sleep(
             write_command(_power_off(m), CMD_DEEP_SLEEP,
                           <<IF retain_ram THEN SLEEP_MODE_1 ELSE SLEEP_MODE_2>>),
             retain_ram)

wake(m) ==
    IF m.state # SLEEPING THEN m ELSE on_wake(hardware_reset(m))

-----------------------------------------------------------------------------
(* SSD1680: refresh operations.  A custom LUT is <<>> when the argument is *)
(* None; display() never passes one.                                       *)
_display_full(m, data, lut, stay_awake) ==
    LET m1 == _init_full(m)
        m2 == IF lut # <<>> THEN write_command(m1, CMD_LUT, lut) ELSE m1
        m3 == write_commands(m2, << <<CMD_RAM_BLACK, data>>, <<CMD_RAM_RED, data>> >>)
        m4 == _update(m3, IF lut # <<>> THEN SEQ_CUSTOM_LUT ELSE SEQ_FULL)
        m5 == set_prev_buffer(on_full_refresh_complete(m4), data)
    IN  IF stay_awake THEN m5 ELSE sleep(m5, TRUE)

(* A partial path that hands the controller the new frame as the old one. *)
_display_partial_red_from_new(m, data, force_full, lut, stay_awake) ==
    IF needs_full_refresh(m) \/ force_full
    THEN _display_full(m, data, lut, stay_awake)
    ELSE LET m1 == _set_window(_init_partial(m, 0, 0, 0, 0), 0, 0, WIDTH, HEIGHT)
             m3 == IF has_prev(m1) THEN write_command(m1, CMD_RAM_RED, data) ELSE m1
             m4 == write_command(m3, CMD_RAM_BLACK, data)
             m5 == _update(m4, SEQ_PARTIAL)
             m6 == on_partial_refresh_complete(set_prev_buffer(m5, data))
         IN  IF stay_awake THEN m6 ELSE sleep(m6, TRUE)

_display_partial(m, data, force_full, lut, stay_awake) ==
    IF needs_full_refresh(m) \/ force_full
    THEN _display_full(m, data, lut, stay_awake)
    ELSE LET m1 == _set_window(_init_partial(m, 0, 0, 0, 0), 0, 0, WIDTH, HEIGHT)
             m2 == IF lut # <<>> THEN write_command(m1, CMD_LUT, lut) ELSE m1
             m3 == IF has_prev(m2)
                   THEN write_command(m2, CMD_RAM_RED, m2.prev_buffer)
                   ELSE m2
             m4 == write_command(m3, CMD_RAM_BLACK, data)
             m5 == _update(m4, IF lut # <<>> THEN SEQ_CUSTOM_LUT ELSE SEQ_PARTIAL)
             m6 == on_partial_refresh_complete(set_prev_buffer(m5, data))
         IN  IF stay_awake THEN m6 ELSE sleep(m6, TRUE)

display(m, data, full, force_full, stay_awake) ==
    IF Len(data) # BUFFER_SIZE THEN Raise(m, "ValueError")
    ELSE IF full THEN _display_full(m, data, <<>>, stay_awake)
    ELSE _display_partial(m, data, force_full, <<>>, stay_awake)

clear(m, color) ==
    LET data == Fill(color, BUFFER_SIZE)
        m1 == write_commands(_init_full(m),
                             << <<CMD_RAM_BLACK, data>>, <<CMD_RAM_RED, data>> >>)
        m2 == on_full_refresh_complete(_update(m1, SEQ_FULL))
    IN  sleep(set_prev_buffer(m2, data), TRUE)

(* An init that initializes and leaves the clearing refresh out. *)
init_without_clear(m, clear_arg) == _init_full(m)

init(m, clear_arg) ==
    IF clear_arg THEN clear(_init_full(m), 255) ELSE _init_full(m)

_set_waveform(m, lut, vgh, vsh1, vsh2, vsl, vcom) ==
    write_commands(m, <<
        <<CMD_LUT, PySlice(lut, 0, LUT_SIZE)>>,
        <<CMD_VGH, <<vgh>> >>,
        <<CMD_VSH_VSL, <<vsh1, vsh2, vsl>> >>,
        <<CMD_VCOM, <<vcom>> >> >>)

(* A custom-LUT refresh that leaves has_basemap as it found it. *)
display_lut_keeping_basemap(m, lut, black, red) ==
    LET m1 == _set_waveform(_init_full(m), lut, DEFAULT_VGH, DEFAULT_VSH1,
                            DEFAULT_VSH2, DEFAULT_VSL, DEFAULT_VCOM)
        m2 == write_commands(m1, <<
                  <<CMD_RAM_BLACK, black>>,
                  <<CMD_RAM_RED, IF red # <<>> THEN red ELSE black>> >>)
    IN  _update(m2, SEQ_CUSTOM_LUT)

(* red = <<>> stands for None: `red if red else black`. *)
display_lut(m, lut, black, red) ==
    LET m1 == _set_waveform(_init_full(m), lut, DEFAULT_VGH, DEFAULT_VSH1,
                            DEFAULT_VSH2, DEFAULT_VSL, DEFAULT_VCOM)
        m2 == write_commands(m1, <<
                  <<CMD_RAM_BLACK, black>>,
                  <<CMD_RAM_RED, IF red # <<>> THEN red ELSE black>> >>)
        m3 == _update(m2, SEQ_CUSTOM_LUT)
    IN  IF Ok(m3) THEN [m3 EXCEPT !.has_basemap = FALSE] ELSE m3

_auto_fill(m, pattern) ==
    LET first_bit == (pattern \div 128) % 2
        param == first_bit * 128 + 6 * 16 + 5
        m1 == wait_ready(write_command(m, CMD_AUTO_WRITE_RED, <<param>>))
    IN  wait_ready(write_command(m1, CMD_AUTO_WRITE_BW, <<param>>))

fast_clear(m, color) ==
    LET m1 == on_full_refresh_complete(_update(_auto_fill(_init_full(m), color), SEQ_FULL))
        m2 == set_prev_buffer(m1, Fill(color, Len(m1.prev_buffer)))
    IN  sleep(m2, TRUE)

-----------------------------------------------------------------------------
(* SSD1680: hardware features and diagnostics.  The values read back from  *)
(* the controller do not change the driver and are not kept.               *)
_power_on(m) ==
    IF m.state = SLEEPING THEN m
    ELSE wait_ready(write_commands(m, <<
             <<CMD_UPDATE_CTRL2, <<SEQ_POWER_ON>> >>,
             <<CMD_ACTIVATE, <<>> >> >>))

(* a = (0x80 if invert_red else 0x00) | (0x08 if invert_bw else 0x00) *)
invert_byte(invert_bw, invert_red) ==
    (IF invert_red THEN 128 ELSE 0) + (IF invert_bw THEN 8 ELSE 0)

set_invert(m, invert_bw, invert_red) ==
    LET m1 == IF m.state = SLEEPING
              THEN wait_ready(on_wake(hardware_reset(m)))
              ELSE m
    IN  write_command(m1, CMD_UPDATE_CTRL1, <<invert_byte(invert_bw, invert_red), 128>>)

set_gate_start(m, position) ==
    write_command(m, CMD_GATE_SCAN_START, <<position % 256, (position \div 256) % 2>>)

(* SPIDevice.read_data: refuses without MISO, waits while BUSY is high,    *)
(* then sends the command byte and clocks the answer in.                   *)
read_data(m, cmd) ==
    IF ~Ok(m) THEN m
    ELSE IF ~m.has_miso THEN Raise(m, "RuntimeError")
    ELSE spi_write(wait_ready(m), cmd, <<>>)

(* The wake-up the diagnostics start with. *)
wake_and_init(m) ==
    LET m1 == IF m.state = SLEEPING THEN on_wake(hardware_reset(m)) ELSE m
    IN  IF m1.state = UNINITIALIZED THEN _init_full(m1) ELSE m1

(* A read_temperature that finds the missing MISO only when it reads the   *)
(* answer, as read_status does.                                            *)
read_temperature_checking_late(m) ==
    LET m1 == wait_ready(write_commands(wake_and_init(m), <<
                  <<CMD_TEMP_SENSOR, <<TEMP_SENSOR_INTERNAL>> >>,
                  <<CMD_UPDATE_CTRL2, <<SEQ_LOAD_TEMP>> >>,
                  <<CMD_ACTIVATE, <<>> >> >>))
    IN  read_data(m1, CMD_TEMP_READ)

read_temperature(m) ==
    IF ~m.has_miso THEN Raise(m, "RuntimeError")
    ELSE LET m1 == wait_ready(write_commands(wake_and_init(m), <<
                       <<CMD_TEMP_SENSOR, <<TEMP_SENSOR_INTERNAL>> >>,
                       <<CMD_UPDATE_CTRL2, <<SEQ_LOAD_TEMP>> >>,
                       <<CMD_ACTIVATE, <<>> >> >>))
         IN  read_data(m1, CMD_TEMP_READ)

(* check_temperature: the range test is on the value read_temperature     *)
(* returned *)
check_temperature(m) == read_temperature(m)

read_status(m) ==
    LET m1 == _power_on(wake_and_init(m))
        m2 == wait_ready(write_command(m1, CMD_HV_READY, <<0>>))
        m3 == wait_ready(write_command(m2, CMD_VCI_DETECT, <<4>>))
    IN  read_data(m3, CMD_STATUS)

read_otp_info(m) ==
    read_data(read_data(wake_and_init(m), CMD_OTP_DISPLAY), CMD_OTP_USER_ID)

calculate_crc(m) ==
    read_data(wait_ready(write_command(wake_and_init(m), CMD_CRC_CALC, <<>>)),
              CMD_CRC_STATUS)

-----------------------------------------------------------------------------
(* SSD1680.display_regions.  A region is [data, x, y, w, h]. *)
RECURSIVE old_data_rows(_, _, _, _, _, _, _)
old_data_rows(old_data, prev, row, x_byte, w_byte, y, h) ==
    IF row >= h THEN old_data
    ELSE LET src == (y + row) * (WIDTH \div 8) + x_byte
             dst == row * w_byte
         IN  old_data_rows(
                 PySliceAssign(old_data, dst, dst + w_byte, PySlice(prev, src, src + w_byte)),
                 prev, row + 1, x_byte, w_byte, y, h)

RECURSIVE update_prev_rows(_, _, _, _, _, _, _)
update_prev_rows(prev, data, row, x_byte, w_byte, y, h) ==
    IF row >= h THEN prev
    ELSE LET dst == (y + row) * (WIDTH \div 8) + x_byte
             src == row * w_byte
         IN  update_prev_rows(
                 PySliceAssign(prev, dst, dst + w_byte, PySlice(data, src, src + w_byte)),
                 data, row + 1, x_byte, w_byte, y, h)

(* A region step that patches _prev_buffer before it reads the stale bytes. *)
region_body_patch_first(m, r) ==
    LET m1 == _set_window(m, r.x, r.y, r.w, r.h)
        x_byte == r.x \div 8
        w_byte == r.w \div 8
        patched == update_prev_rows(m1.prev_buffer, r.data, 0, x_byte, w_byte, r.y, r.h)
        old_data == old_data_rows(Fill(0, w_byte * r.h), patched, 0,
                                  x_byte, w_byte, r.y, r.h)
        m2 == IF Ok(m1) /\ has_prev(m1)
              THEN [write_command(m1, CMD_RAM_RED, old_data) EXCEPT !.prev_buffer = patched]
              ELSE m1
    IN  write_commands(m2, <<
            <<CMD_RAM_X_CNT, <<r.x \div 8>> >>,
            <<CMD_RAM_Y_CNT, <<r.y % 256, r.y \div 256>> >>,
            <<CMD_RAM_BLACK, r.data>> >>)

region_body(m, r) ==
    LET m1 == _set_window(m, r.x, r.y, r.w, r.h)
        x_byte == r.x \div 8
        w_byte == r.w \div 8
        old_data == old_data_rows(Fill(0, w_byte * r.h), m1.prev_buffer, 0,
                                  x_byte, w_byte, r.y, r.h)
        m2 == IF Ok(m1) /\ has_prev(m1)
              THEN [write_command(m1, CMD_RAM_RED, old_data)
                      EXCEPT !.prev_buffer = update_prev_rows(@, r.data, 0, x_byte,
                                                              w_byte, r.y, r.h)]
              ELSE m1
    IN  write_commands(m2, <<
            <<CMD_RAM_X_CNT, <<r.x \div 8>> >>,
            <<CMD_RAM_Y_CNT, <<r.y % 256, r.y \div 256>> >>,
            <<CMD_RAM_BLACK, r.data>> >>)

(* A loop that refreshes the panel after every region. *)
RECURSIVE region_loop_refreshing(_, _, _)
region_loop_refreshing(m, regions, i) ==
    IF i > Len(regions) \/ ~Ok(m) THEN m
    ELSE IF regions[i].x % 8 # 0 \/ regions[i].w % 8 # 0
    THEN Raise(m, "ValueError")
    ELSE region_loop_refreshing(_update(region_body(m, regions[i]), SEQ_PARTIAL),
                                regions, i + 1)

RECURSIVE region_loop(_, _, _)
region_loop(m, regions, i) ==
    IF i > Len(regions) \/ ~Ok(m) THEN m
    ELSE IF regions[i].x % 8 # 0 \/ regions[i].w % 8 # 0
    THEN Raise(m, "ValueError")
    ELSE region_loop(region_body(m, regions[i]), regions, i + 1)

(* A display_regions that looks at the list before it looks at the basemap. *)
display_regions_list_first(m, regions) ==
    IF regions = <<>> THEN m
    ELSE IF ~m.has_basemap THEN Raise(m, "RuntimeError")
    ELSE LET first == regions[1]
             m1 == _init_partial(m, first.x, first.y, first.w, first.h)
             m2 == region_loop(m1, regions, 1)
         IN  on_partial_refresh_complete(_update(m2, SEQ_PARTIAL))

display_regions(m, regions) ==
    IF ~m.has_basemap THEN Raise(m, "RuntimeError")
    ELSE IF regions = <<>> THEN m
    ELSE LET first == regions[1]
             m1 == _init_partial(m, first.x, first.y, first.w, first.h)
             m2 == region_loop(m1, regions, 1)
         IN  on_partial_refresh_complete(_update(m2, SEQ_PARTIAL))

display_region(m, data, x, y, w, h) ==
    display_regions(m, << [data |-> data, x |-> x, y |-> y, w |-> w, h |-> h] >>)

display_gray(m, black_plane, red_plane) ==
    display_lut(m, <<42, 96, 21>>, black_plane, red_plane)

-----------------------------------------------------------------------------
(* Canvas: the refreshes.  mono stands for the frame to_mono() returns,    *)
(* black and red for the planes to_planes() returns.                       *)
full_refresh(m, mono, black, red) ==
    IF m.depth = 2 THEN display_gray(m, black, red)
    ELSE display(m, mono, TRUE, FALSE, FALSE)

partial_refresh(m, mono, black, red) ==
    IF m.depth = 2 THEN display_gray(m, black, red)
    ELSE display(m, mono, FALSE, FALSE, TRUE)

(* lut = <<>> is not passed: custom_refresh always hands its LUT on. *)
custom_refresh(m, lut, mono, black, red) ==
    IF m.depth = 2 THEN display_lut(m, lut, black, red)
    ELSE display_lut(m, lut, mono, <<>>)

refresh(m, force_full, mono, black, red) ==
    IF m.depth = 2 THEN display_gray(m, black, red)
    ELSE display(m, mono, FALSE, force_full, TRUE)

invert_display(m, inverted) == set_invert(m, inverted, FALSE)

-----------------------------------------------------------------------------
(* The arguments the calls are made with.  A frame is BUFFER_SIZE bytes;   *)
(* Ramp has a different byte at every offset.  A region's data has         *)
(* (w // 8) * h bytes, numbered from `base` so that every byte of every    *)
(* region differs; base = 255 gives an all-white region.                   *)
White == Fill(255, BUFFER_SIZE)
Ramp == [i \in 1..BUFFER_SIZE |-> i]
ShortFrame == Fill(255, BUFFER_SIZE - 1)
CustomLut == <<1, 2, 3>>

Region(base, x, y, w, h) ==
    [data |-> [k \in 1..((w \div 8) * h) |-> IF base = 255 THEN 255 ELSE base + k],
     x |-> x, y |-> y, w |-> w, h |-> h]
RegA(base) == Region(IF base = 255 THEN 255 ELSE base + 16, 8, 1, 8, 1)
RegB(base) == Region(IF base = 255 THEN 255 ELSE base + 32, 0, 0, 8, 2)
RegC(base) == Region(IF base = 255 THEN 255 ELSE base + 48, 0, 0, 16, 1)
RegMisX(base) == Region(IF base = 255 THEN 255 ELSE base + 64, 4, 0, 8, 1)
RegMisW(base) == Region(IF base = 255 THEN 255 ELSE base + 80, 0, 1, 12, 1)
(* Aligned regions a caller can also pass: one whose data is a byte short  *)
(* of (w // 8) * h, one that lies on the row below the panel.              *)
RegShort == [data |-> <<255>>, x |-> 0, y |-> 0, w |-> 16, h |-> 1]
RegBelow == [data |-> <<255>>, x |-> 0, y |-> HEIGHT, w |-> 8, h |-> 1]
Regions(base) == {RegA(base), RegB(base), RegC(base), RegMisX(base), RegMisW(base)}
RegionLists(base) ==
    {<<>>, <<RegA(base)>>, <<RegB(base)>>, <<RegA(base), RegB(base)>>,
     <<RegB(base), RegC(base)>>, <<RegC(base), RegB(base), RegA(base)>>,
     <<RegMisX(base)>>, <<RegA(base), RegMisW(base)>>}

-----------------------------------------------------------------------------
(* FrameBuffer (modules/buffer/framebuffer.py) over the panel's WIDTH x    *)
(* HEIGHT pixels.  A buffer is a record b: depth, rotation, inverted and   *)
(* the bytes (b.buffer[i + 1] is _buffer[i]).  b.err is the exception a    *)
(* method raised ("none" otherwise) and b.stray tells that a write used a  *)
(* byte index outside 0 .. len - 1: Python raises IndexError beyond the    *)
(* end and counts a negative index from the end.                           *)
BLACK == 0
DARK_GRAY == 1
LIGHT_GRAY == 2
WHITE == 3
_MONO_THRESHOLD == 2

RECURSIVE BitAnd(_, _)
BitAnd(a, b) ==
    IF a = 0 \/ b = 0 THEN 0
    ELSE 2 * BitAnd(a \div 2, b \div 2) + (a % 2) * (b % 2)

BitOr(a, b) == a + b - BitAnd(a, b)

_BIT_MASKS(i) == 2 ^ (7 - i)
_INV_MASKS(i) == 255 - (2 ^ (7 - i))

(* (is_swapped, x_flip, y_flip); any other rotation is a KeyError *)
_ROTATION(r) ==
    CASE r = 0 -> [swap |-> FALSE, x_flip |-> FALSE, y_flip |-> FALSE]
      [] r = 90 -> [swap |-> TRUE, x_flip |-> TRUE, y_flip |-> FALSE]
      [] r = 180 -> [swap |-> FALSE, x_flip |-> TRUE, y_flip |-> TRUE]
      [] r = 270 -> [swap |-> TRUE, x_flip |-> FALSE, y_flip |-> TRUE]

(* FrameBuffer.__init__(WIDTH, HEIGHT, depth, rotation) *)
FrameBuffer(d, rotation) ==
    [depth |-> d, rotation |-> rotation % 360, inverted |-> FALSE,
     buffer |-> Fill(0, (WIDTH * HEIGHT * d + 7) \div 8),
     err |-> "none", stray |-> FALSE]

_row_bytes(b) == (WIDTH * b.depth + 7) \div 8

(* _update_dimensions: the logical width and height *)
width(b) == IF b.rotation \in {0, 180} THEN WIDTH ELSE HEIGHT
height(b) == IF b.rotation \in {0, 180} THEN HEIGHT ELSE WIDTH

(* A transform that forgets to swap the axes. *)
_transform_unswapped(b, x, y) ==
    LET rot == _ROTATION(b.rotation)
    IN  << IF rot.x_flip THEN WIDTH - 1 - x ELSE x,
           IF rot.y_flip THEN HEIGHT - 1 - y ELSE y >>

_transform(b, x, y) ==
    LET rot == _ROTATION(b.rotation)
        x1 == IF rot.swap THEN y ELSE x
        y1 == IF rot.swap THEN x ELSE y
    IN  << IF rot.x_flip THEN WIDTH - 1 - x1 ELSE x1,
           IF rot.y_flip THEN HEIGHT - 1 - y1 ELSE y1 >>

(* A transform_region that flips the corner like a single pixel. *)
transform_region_as_pixel(b, x, y, w, h) ==
    LET rot == _ROTATION(b.rotation)
        x1 == IF rot.swap THEN y ELSE x
        y1 == IF rot.swap THEN x ELSE y
        w1 == IF rot.swap THEN h ELSE w
        h1 == IF rot.swap THEN w ELSE h
    IN  << IF rot.x_flip THEN WIDTH - 1 - x1 ELSE x1,
           IF rot.y_flip THEN HEIGHT - 1 - y1 ELSE y1, w1, h1 >>

transform_region(b, x, y, w, h) ==
    LET rot == _ROTATION(b.rotation)
        x1 == IF rot.swap THEN y ELSE x
        y1 == IF rot.swap THEN x ELSE y
        w1 == IF rot.swap THEN h ELSE w
        h1 == IF rot.swap THEN w ELSE h
    IN  << IF rot.x_flip THEN WIDTH - x1 - w1 ELSE x1,
           IF rot.y_flip THEN HEIGHT - y1 - h1 ELSE y1, w1, h1 >>

(* buf[idx] = (buf[idx] & keep) | bits *)
setitem(b, idx, keep, bits) ==
    LET n == Len(b.buffer)
    IN  IF b.err # "none" THEN b
        ELSE IF idx >= n \/ idx < -n
        THEN [b EXCEPT !.err = "IndexError", !.stray = TRUE]
        ELSE [b EXCEPT !.buffer[(IF idx < 0 THEN idx + n ELSE idx) + 1] =
                           BitOr(BitAnd(@, keep), bits),
                       !.stray = @ \/ idx < 0]

_set_pixel_1bit(b, px, py, color) ==
    LET idx == py * _row_bytes(b) + (px \div 8)
        bit == px % 8
    IN  IF color # 0 THEN setitem(b, idx, 255, _BIT_MASKS(bit))
        ELSE setitem(b, idx, _INV_MASKS(bit), 0)

_get_pixel_1bit(b, px, py) ==
    LET idx == py * _row_bytes(b) + (px \div 8)
    IN  IF BitAnd(b.buffer[idx + 1], _BIT_MASKS(px % 8)) # 0 THEN WHITE ELSE BLACK

_set_pixel_2bit(b, px, py, color) ==
    LET bit_off == (py * WIDTH + px) * 2
        bit_pos == 6 - (bit_off % 8)
    IN  setitem(b, bit_off \div 8, 255 - 3 * (2 ^ bit_pos), (color % 4) * (2 ^ bit_pos))

_get_pixel_2bit(b, px, py) ==
    LET bit_off == (py * WIDTH + px) * 2
    IN  (b.buffer[(bit_off \div 8) + 1] \div (2 ^ (6 - (bit_off % 8)))) % 4

_effective_color(b, color) ==
    IF ~b.inverted THEN color
    ELSE IF b.depth = 1 THEN (IF color # 0 THEN BLACK ELSE WHITE)
    ELSE 3 - (color % 4)

pixel_fast(b, x, y, color) ==
    LET p == _transform(b, x, y)
        eff == _effective_color(b, color)
    IN  IF b.depth = 1 THEN _set_pixel_1bit(b, p[1], p[2], eff)
        ELSE _set_pixel_2bit(b, p[1], p[2], eff)

pixel(b, x, y, color) ==
    IF ~(0 <= x /\ x < width(b) /\ 0 <= y /\ y < height(b)) THEN b
    ELSE pixel_fast(b, x, y, color)

get_pixel(b, x, y) ==
    IF ~(0 <= x /\ x < width(b) /\ 0 <= y /\ y < height(b)) THEN WHITE
    ELSE LET p == _transform(b, x, y)
         IN  IF b.depth = 1 THEN _get_pixel_1bit(b, p[1], p[2])
             ELSE _get_pixel_2bit(b, p[1], p[2])

(* FrameBuffer.clear (the driver has a clear of its own) *)
buffer_clear(b, color) ==
    LET eff_color == _effective_color(b, color)
        fill == IF b.depth = 1 THEN (IF eff_color # 0 THEN 255 ELSE 0)
                ELSE (eff_color % 4) * 85
    IN  [b EXCEPT !.buffer = Fill(fill, Len(b.buffer))]

invert(b) ==
    [b EXCEPT !.buffer = [i \in 1..Len(b.buffer) |-> 255 - b.buffer[i]],
              !.inverted = ~b.inverted]

(* The loops "for i in range(n)" of _hline_phys and _vline_phys that set   *)
(* one pixel per turn, (dx, dy) apart.                                     *)
RECURSIVE set_run(_, _, _, _, _, _, _)
set_run(b, px, py, dx, dy, n, color) ==
    IF n <= 0 THEN b
    ELSE set_run(IF b.depth = 1 THEN _set_pixel_1bit(b, px, py, color)
                 ELSE _set_pixel_2bit(b, px, py, color),
                 px + dx, py + dy, dx, dy, n - 1, color)

_hline_phys(b, px, py, length, color) ==
    IF b.depth = 2 THEN set_run(b, px, py, 1, 0, length, color)
    ELSE
    LET row == py * _row_bytes(b)
        end == px + length
        b0 == px \div 8
        bit0 == px % 8
        b1 == (end - 1) \div 8
        bit1 == (end - 1) % 8
        start_mask == 255 \div (2 ^ bit0)
        end_mask == (255 * (2 ^ (7 - bit1))) % 256
        mask == BitAnd(start_mask, end_mask)
        s1 == IF color # 0 THEN setitem(b, row + b0, 255, start_mask)
              ELSE setitem(b, row + b0, 255 - start_mask, 0)
        s2 == IF b1 > b0 + 1 /\ s1.err = "none"
              THEN [s1 EXCEPT !.buffer = PySliceAssign(@, row + b0 + 1, row + b1,
                                  Fill(IF color # 0 THEN 255 ELSE 0, b1 - b0 - 1))]
              ELSE s1
    IN  IF b0 = b1
        THEN IF color # 0 THEN setitem(b, row + b0, 255, mask)
             ELSE setitem(b, row + b0, 255 - mask, 0)
        ELSE IF color # 0 THEN setitem(s2, row + b1, 255, end_mask)
             ELSE setitem(s2, row + b1, 255 - end_mask, 0)

_vline_phys(b, px, py, length, color) == set_run(b, px, py, 0, 1, length, color)

hline(b, x, y, length, color) ==
    IF length <= 0 \/ y < 0 \/ y >= height(b) THEN b
    ELSE IF x >= width(b) \/ x + length <= 0 THEN b
    ELSE LET x1 == IF x < 0 THEN 0 ELSE x
             l1 == IF x < 0 THEN length + x ELSE length
             l2 == IF x1 + l1 > width(b) THEN width(b) - x1 ELSE l1
             effective == _effective_color(b, color)
             rot == _ROTATION(b.rotation)
         IN  IF l2 <= 0 THEN b
             ELSE IF rot.swap
             THEN _vline_phys(b, IF rot.x_flip THEN WIDTH - 1 - y ELSE y,
                              IF rot.y_flip THEN HEIGHT - x1 - l2 ELSE x1,
                              l2, effective)
             ELSE _hline_phys(b, IF rot.x_flip THEN WIDTH - x1 - l2 ELSE x1,
                              IF rot.y_flip THEN HEIGHT - 1 - y ELSE y,
                              l2, effective)

vline(b, x, y, length, color) ==
    IF length <= 0 \/ x < 0 \/ x >= width(b) THEN b
    ELSE LET y1 == IF y < 0 THEN 0 ELSE y
             l1 == IF y < 0 THEN length + y ELSE length
             l2 == IF y1 + l1 > height(b) THEN height(b) - y1 ELSE l1
             effective == _effective_color(b, color)
             rot == _ROTATION(b.rotation)
         IN  IF l2 <= 0 THEN b
             ELSE IF rot.swap
             THEN _hline_phys(b, IF rot.x_flip THEN WIDTH - y1 - l2 ELSE y1,
                              IF rot.y_flip THEN HEIGHT - 1 - x ELSE x,
                              l2, effective)
             ELSE _vline_phys(b, IF rot.x_flip THEN WIDTH - 1 - x ELSE x,
                              IF rot.y_flip THEN HEIGHT - y1 - l2 ELSE y1,
                              l2, effective)

(* get_region(px, py, pw, ph, physical=True) of a 1-bit buffer: the bytes, *)
(* or the ValueError of a misaligned rectangle.                            *)
RECURSIVE region_rows(_, _, _, _, _, _)
region_rows(region, b, row, px_byte, py, dst_stride) ==
    IF row < 0 THEN region
    ELSE LET src == (py + row) * _row_bytes(b) + px_byte
             dst == row * dst_stride
         IN  PySliceAssign(region_rows(region, b, row - 1, px_byte, py, dst_stride),
                           dst, dst + dst_stride,
                           PySlice(b.buffer, src, src + dst_stride))

get_region(b, px, py, pw, ph) ==
    IF px % 8 # 0 \/ pw % 8 # 0 THEN [err |-> "ValueError", data |-> <<>>]
    ELSE [err |-> "none",
          data |-> region_rows(Fill(0, (pw * ph) \div 8), b, ph - 1,
                               px \div 8, py, pw \div 8)]

(* Tables that put the first pixel of the byte in the low bit of the nibble. *)
_init_luts_lsb_first ==
    LET val(i, p) == (i \div (2 ^ (6 - 2 * p))) % 4
        out_bit(p) == 2 ^ p
        lut(test(_)) ==
            [i \in 0..255 |->
                (IF test(val(i, 0)) THEN out_bit(0) ELSE 0)
              + (IF test(val(i, 1)) THEN out_bit(1) ELSE 0)
              + (IF test(val(i, 2)) THEN out_bit(2) ELSE 0)
              + (IF test(val(i, 3)) THEN out_bit(3) ELSE 0)]
        is_mono(v) == v >= _MONO_THRESHOLD
        is_black(v) == (v \div 2) % 2 = 1
        is_red(v) == v % 2 = 1
    IN  [mono |-> lut(is_mono), black |-> lut(is_black), red |-> lut(is_red)]

(* _init_luts: for a byte of four 2-bit pixels (first pixel in the high    *)
(* bits) the nibble of their mono, black-plane and red-plane bits.         *)
_init_luts ==
    LET val(i, p) == (i \div (2 ^ (6 - 2 * p))) % 4
        out_bit(p) == 2 ^ (3 - p)
        lut(test(_)) ==
            [i \in 0..255 |->
                (IF test(val(i, 0)) THEN out_bit(0) ELSE 0)
              + (IF test(val(i, 1)) THEN out_bit(1) ELSE 0)
              + (IF test(val(i, 2)) THEN out_bit(2) ELSE 0)
              + (IF test(val(i, 3)) THEN out_bit(3) ELSE 0)]
        is_mono(v) == v >= _MONO_THRESHOLD
        is_black(v) == (v \div 2) % 2 = 1
        is_red(v) == v % 2 = 1
    IN  [mono |-> lut(is_mono), black |-> lut(is_black), red |-> lut(is_red)]

(* for i in range(0, _buffer_size, 2): out[i // 2] = (lut[buf[i]] << 4) | lut[buf[i + 1]] *)
lut_pack(b, lut) ==
    [k \in 1..(Len(b.buffer) \div 2) |->
        BitOr(lut[b.buffer[2 * k - 1]] * 16, lut[b.buffer[2 * k]])]

to_mono(b) ==
    IF b.depth = 1 THEN b.buffer ELSE lut_pack(b, _init_luts.mono)

to_planes(b) ==
    IF b.depth # 2 THEN [err |-> "ValueError", black |-> <<>>, red |-> <<>>]
    ELSE [err |-> "none", black |-> lut_pack(b, _init_luts.black),
          red |-> lut_pack(b, _init_luts.red)]

-----------------------------------------------------------------------------
(* DrawBuffer (modules/buffer/draw.py) *)

(* Python's a // b for either sign of b *)
floordiv(a, b) == IF b > 0 THEN a \div b ELSE (-a) \div (-b)

(* line: LEFT = 1, RIGHT = 2, BOTTOM = 4, TOP = 8 *)
_compute_outcode(b, x, y) ==
    (IF x < 0 THEN 1 ELSE IF x > width(b) - 1 THEN 2 ELSE 0)
  + (IF y < 0 THEN 4 ELSE IF y > height(b) - 1 THEN 8 ELSE 0)

(* line: the clipping loop; <<>> when the line is rejected *)
RECURSIVE clip_line(_, _, _, _, _)
clip_line(b, x0, y0, x1, y1) ==
    LET code0 == _compute_outcode(b, x0, y0)
        code1 == _compute_outcode(b, x1, y1)
        xmax == width(b) - 1
        ymax == height(b) - 1
        outcode == IF code0 # 0 THEN code0 ELSE code1
        p == IF BitAnd(outcode, 8) # 0
             THEN << x0 + floordiv((x1 - x0) * (ymax - y0), y1 - y0), ymax >>
             ELSE IF BitAnd(outcode, 4) # 0
             THEN << x0 + floordiv((x1 - x0) * (0 - y0), y1 - y0), 0 >>
             ELSE IF BitAnd(outcode, 2) # 0
             THEN << xmax, y0 + floordiv((y1 - y0) * (xmax - x0), x1 - x0) >>
             ELSE << 0, y0 + floordiv((y1 - y0) * (0 - x0), x1 - x0) >>
    IN  IF code0 = 0 /\ code1 = 0 THEN <<x0, y0, x1, y1>>
        ELSE IF BitAnd(code0, code1) # 0 THEN <<>>
        ELSE IF outcode = code0 THEN clip_line(b, p[1], p[2], x1, y1)
        ELSE clip_line(b, x0, y0, p[1], p[2])

(* line: the drawing loop, one pixel per x in range(x, x1 + 1) *)
RECURSIVE bresenham(_, _, _, _, _, _, _, _, _, _)
bresenham(b, x, x1, y, error, dx, dy, ystep, steep, effective_col) ==
    IF x > x1 THEN b
    ELSE LET lx == IF steep THEN y ELSE x
             ly == IF steep THEN x ELSE y
             p == _transform(b, lx, ly)
             b1 == IF b.depth = 1 THEN _set_pixel_1bit(b, p[1], p[2], effective_col)
                   ELSE _set_pixel_2bit(b, p[1], p[2], effective_col)
             e1 == error - dy
         IN  bresenham(b1, x + 1, x1, IF e1 < 0 THEN y + ystep ELSE y,
                       IF e1 < 0 THEN e1 + dx ELSE e1, dx, dy, ystep, steep,
                       effective_col)

line(b, x0, y0, x1, y1, color) ==
    LET c == clip_line(b, x0, y0, x1, y1)
        abs(v) == IF v < 0 THEN -v ELSE v
        steep == abs(c[4] - c[2]) > abs(c[3] - c[1])
        sx0 == IF steep THEN c[2] ELSE c[1]
        sy0 == IF steep THEN c[1] ELSE c[2]
        sx1 == IF steep THEN c[4] ELSE c[3]
        sy1 == IF steep THEN c[3] ELSE c[4]
        ax0 == IF sx0 > sx1 THEN sx1 ELSE sx0
        ay0 == IF sx0 > sx1 THEN sy1 ELSE sy0
        ax1 == IF sx0 > sx1 THEN sx0 ELSE sx1
        ay1 == IF sx0 > sx1 THEN sy0 ELSE sy1
        dx == ax1 - ax0
    IN  IF c = <<>> THEN b
        ELSE bresenham(b, ax0, ax1, ay0, dx \div 2, dx, abs(ay1 - ay0),
                       IF ay0 < ay1 THEN 1 ELSE -1, steep, _effective_color(b, color))

rect(b, x, y, w, h, color) ==
    vline(vline(hline(hline(b, x, y, w, color), x, y + h - 1, w, color),
                x, y, h, color),
          x + w - 1, y, h, color)

RECURSIVE fill_rows(_, _, _, _, _, _)
fill_rows(b, x, y, w, row, color) ==
    IF row < 0 THEN b
    ELSE hline(fill_rows(b, x, y, w, row - 1, color), x, y + row, w, color)

fill_rect(b, x, y, w, h, color) ==
    LET x1 == IF x < 0 THEN 0 ELSE x
        w1 == IF x < 0 THEN w + x ELSE w
        y1 == IF y < 0 THEN 0 ELSE y
        h1 == IF y < 0 THEN h + y ELSE h
        w2 == IF x1 + w1 > width(b) THEN width(b) - x1 ELSE w1
        h2 == IF y1 + h1 > height(b) THEN height(b) - y1 ELSE h1
    IN  IF w2 <= 0 \/ h2 <= 0 THEN b
        ELSE fill_rows(b, x1, y1, w2, h2 - 1, color)

(* _blit_1bit and _blit_2bit: the two nested loops, k counting the turns   *)
(* of the inner one over all rows.  a holds the arguments the loops get:   *)
(* w, x, y, the clip r_start, c_start, c_end and col, the effective color  *)
(* of the blit context.                                                    *)
RECURSIVE blit_loop(_, _, _, _)
blit_loop(b, bmp, a, k) ==
    IF k < 0 THEN b
    ELSE
    LET b1 == blit_loop(b, bmp, a, k - 1)
        row == a.r_start + (k \div (a.c_end - a.c_start))
        col_idx == a.c_start + (k % (a.c_end - a.c_start))
        row_bytes == (a.w + 7) \div 8
        set == BitAnd(bmp[row * row_bytes + (col_idx \div 8) + 1],
                      128 \div (2 ^ (col_idx % 8))) # 0
        rot == _ROTATION(b.rotation)
        px == IF ~rot.swap
              THEN (IF rot.x_flip THEN WIDTH - 1 - a.x ELSE a.x)
                   + col_idx * (IF rot.x_flip THEN -1 ELSE 1)
              ELSE (IF rot.x_flip THEN WIDTH - 1 - a.y ELSE a.y)
                   + row * (IF rot.x_flip THEN -1 ELSE 1)
        py == IF ~rot.swap
              THEN (IF rot.y_flip THEN HEIGHT - 1 - a.y ELSE a.y)
                   + row * (IF rot.y_flip THEN -1 ELSE 1)
              ELSE (IF rot.y_flip THEN HEIGHT - 1 - a.x ELSE a.x)
                   + col_idx * (IF rot.y_flip THEN -1 ELSE 1)
        idx == py * _row_bytes(b) + (px \div 8)
    IN  IF ~set THEN b1
        ELSE IF b.depth = 2 THEN pixel_fast(b1, a.x + col_idx, a.y + row, a.col)
        ELSE IF a.col # 0 THEN setitem(b1, idx, 255, _BIT_MASKS(px % 8))
        ELSE setitem(b1, idx, _INV_MASKS(px % 8), 0)

blit(b, bitmap, x, y, w, h, color) ==
    IF x >= width(b) \/ y >= height(b) \/ x + w <= 0 \/ y + h <= 0 THEN b
    ELSE LET row_start == Max(0, -y)
             row_end == Min(h, height(b) - y)
             col_start == Max(0, -x)
             col_end == Min(w, width(b) - x)
         IN  IF row_start >= row_end \/ col_start >= col_end THEN b
             ELSE blit_loop(b, bitmap,
                            [w |-> w, x |-> x, y |-> y, r_start |-> row_start,
                             c_start |-> col_start, c_end |-> col_end,
                             col |-> _effective_color(b, color)],
                            (row_end - row_start) * (col_end - col_start) - 1)

-----------------------------------------------------------------------------
(* Canvas.update_region on the buffer b *)
update_region(m, b, x, y, w, h) ==
    IF b.depth # 1 THEN Raise(m, "ValueError")
    ELSE LET p == transform_region(b, x, y, w, h)
             region == get_region(b, p[1], p[2], p[3], p[4])
         IN  IF region.err # "none" THEN Raise(m, region.err)
             ELSE display_region(m, region.data, p[1], p[2], p[3], p[4])

-----------------------------------------------------------------------------
(* The calls on the buffer.  The arguments are taken around the edges of   *)
(* the logical viewport: n is its width or height.                         *)
Colors == {BLACK, DARK_GRAY, LIGHT_GRAY, WHITE}
Rotations == {0, 90, 180, 270}
Coords(n) == {-1, 0, n - 1, n}
Lengths(n) == {-1, 0, 1, 2, n, n + 2}
Sizes(n) == {0, 2, n + 1}
Ends(n) == {-1, 1, n - 1}
ShapeColors == {BLACK, LIGHT_GRAY}

(* A frame of one color, as clear() and invert() leave it: the drawing     *)
(* calls of the model start from such a frame.                             *)
Blank(b) == \A i \in 1..Len(b.buffer) : b.buffer[i] = b.buffer[1]

(* Bitmaps for blit: w x h pixels, rows of (w + 7) // 8 bytes, MSB first. *)
Bitmaps ==
    { [w |-> 3, h |-> 2, data |-> <<160, 64>>],
      [w |-> 9, h |-> 2, data |-> <<255, 128, 129, 128>>],
      [w |-> 2, h |-> 3, data |-> <<192, 128, 64>>] }

-----------------------------------------------------------------------------
(* TextRenderer (modules/text/renderer.py) over BF2 fonts                  *)
(* (modules/text/bf2.py).  A font is what BF2Font.__init__ reads from the  *)
(* file: the header fields and the index cp -> (width, offset); read(off)  *)
(* gives the height * bpr bytes of a glyph, here numbered from the font's  *)
(* `base` so that glyphs of different fonts differ.  The glyph cache       *)
(* holds at most MaxCache bytes (4096 by default in the source); the       *)
(* glyphs of c.bf2 are larger than that.                                   *)
FontFiles ==
    [a |-> [prop |-> TRUE, max_w |-> 3, height |-> 2, bpr |-> 1, def_w |-> 2,
            base |-> 10,
            index |-> [cp \in {1, 2} |-> [w |-> cp + 1, off |-> 2 * (cp - 1)]]],
     b |-> [prop |-> FALSE, max_w |-> 4, height |-> 3, bpr |-> 1, def_w |-> 4,
            base |-> 20,
            index |-> [cp \in {2, 3} |-> [w |-> cp, off |-> 3 * (cp - 2)]]],
     c |-> [prop |-> TRUE, max_w |-> 8, height |-> MaxCache + 1, bpr |-> 1,
            def_w |-> 8, base |-> 40,
            index |-> [cp \in {1, 3} |-> [w |-> 8, off |-> (MaxCache + 1) * (cp \div 2)]]]]

(* BF2Font.read(offset) *)
read(f, offset) == [k \in 1..(f.height * f.bpr) |-> f.base + offset + k]

(* TextRenderer.__init__; the cache is an OrderedDict, here the sequence   *)
(* of its items from the first to the last.  `reads` counts the read()     *)
(* calls on the font files during a call.                                  *)
TextRenderer(cache_size) ==
    [fonts |-> <<>>, cache |-> <<>>, cache_size |-> 0, cache_max |-> cache_size,
     base_h |-> 8, err |-> "none", reads |-> 0]

(* add_font: BF2Font(path) raises OSError for a file that is not there *)
add_font(t, path, optional) ==
    IF path \notin DOMAIN FontFiles
    THEN IF optional THEN t ELSE [t EXCEPT !.err = "OSError"]
    ELSE [t EXCEPT !.fonts = Append(@, FontFiles[path]),
                   !.base_h = IF Len(t.fonts) = 0 THEN FontFiles[path].height ELSE @]

(* A load_font that keeps the cached glyphs of the fonts it closes. *)
load_font_keeping_cache(t, path) ==
    add_font([t EXCEPT !.fonts = <<>>], path, FALSE)

load_font(t, path) ==
    add_font([t EXCEPT !.fonts = <<>>, !.cache = <<>>, !.cache_size = 0], path, FALSE)

(* An eviction loop that pops the last item (popitem(last=True)). *)
RECURSIVE evict_newest(_, _)
evict_newest(t, sz) ==
    IF t.cache_size + sz > t.cache_max /\ t.cache # <<>>
    THEN evict_newest([t EXCEPT !.cache = SubSeq(@, 1, Len(@) - 1),
                                !.cache_size = @ - Len(t.cache[Len(t.cache)].res.data)],
                      sz)
    ELSE t

(* _get_glyph: the LRU eviction loop *)
RECURSIVE evict(_, _)
evict(t, sz) ==
    IF t.cache_size + sz > t.cache_max /\ t.cache # <<>>
    THEN evict([t EXCEPT !.cache = Tail(@),
                         !.cache_size = @ - Len(Head(t.cache).res.data)], sz)
    ELSE t

(* _get_glyph: the loop over the font stack from font i on.  The result    *)
(* is the renderer and the glyph returned (<<>> stands for None).          *)
RECURSIVE find_glyph(_, _, _)
find_glyph(t, cp, i) ==
    IF i > Len(t.fonts) THEN [t |-> t, res |-> <<>>]
    ELSE IF cp \notin DOMAIN t.fonts[i].index THEN find_glyph(t, cp, i + 1)
    ELSE LET f == t.fonts[i]
             info == f.index[cp]
             data == read(f, info.off)
             res == [data |-> data, w |-> IF f.prop THEN info.w ELSE f.max_w,
                     h |-> f.height, bpr |-> f.bpr]
             t1 == evict(t, Len(data))
         IN  [t |-> [t1 EXCEPT !.cache = Append(@, [cp |-> cp, res |-> res]),
                               !.cache_size = @ + Len(data),
                               !.reads = @ + 1],
              res |-> res]

_get_glyph(t, cp) ==
    LET hit == {i \in 1..Len(t.cache) : t.cache[i].cp = cp}
    IN  IF hit # {}
        THEN LET i == CHOOSE j \in hit : TRUE
             IN  [t |-> [t EXCEPT !.cache = SubSeq(@, 1, i - 1)
                                              \o SubSeq(@, i + 1, Len(@))
                                              \o <<@[i]>>],
                  res |-> t.cache[i].res]
        ELSE find_glyph(t, cp, 1)

(* "for ch in chars: self._get_glyph(ord(ch))": the renderer after the     *)
(* loop and the glyphs the lookups returned, in order                      *)
RECURSIVE get_glyphs(_, _)
get_glyphs(t, chars) ==
    IF chars = <<>> THEN [t |-> t, res |-> <<>>]
    ELSE LET r == get_glyphs(t, SubSeq(chars, 1, Len(chars) - 1))
             g == _get_glyph(r.t, chars[Len(chars)])
         IN  [t |-> g.t, res |-> Append(r.res, g.res)]

preload_glyphs(t, chars) == get_glyphs(t, chars)

RECURSIVE sum_widths(_, _, _)
sum_widths(glyphs, fallback_w, scale) ==
    IF glyphs = <<>> THEN 0
    ELSE (IF Head(glyphs) # <<>> THEN (Head(glyphs).w + 1) * scale
          ELSE fallback_w * scale)
         + sum_widths(Tail(glyphs), fallback_w, scale)

(* measure_width: the renderer, the glyphs looked up and the width *)
measure_width(t, chars, scale) ==
    IF t.fonts = <<>> \/ chars = <<>> THEN [t |-> t, res |-> <<>>, width |-> 0]
    ELSE LET r == get_glyphs(t, chars)
         IN  [t |-> r.t, res |-> r.res,
              width |-> sum_widths(r.res, t.fonts[1].def_w, scale) - scale]

(* _render_fast: the nested loops over the visible rows and columns of    *)
(* the glyph and the scale x scale block of each set bit, k counting the   *)
(* turns of the innermost one.  a holds the arguments and the values       *)
(* computed before the loops; the context gives pw = WIDTH, ph = HEIGHT,   *)
(* stride = _row_bytes and col, the effective color.  The depth of the     *)
(* context is not looked at.                                               *)
RECURSIVE _render_loop(_, _, _, _)
_render_loop(b, data, a, k) ==
    IF k < 0 THEN b
    ELSE
    LET b1 == _render_loop(b, data, a, k - 1)
        rot == _ROTATION(b.rotation)
        block == a.scale * a.scale
        cols == a.col_end - a.col_start
        row == a.row_start + (k \div (block * cols))
        col_idx == a.col_start + ((k \div block) % cols)
        sy == (k % block) \div a.scale
        sx == k % a.scale
        set == BitAnd(data[row * a.bpr + (col_idx \div 8) + 1],
                      128 \div (2 ^ (col_idx % 8))) # 0
        dx_s == IF ~rot.swap THEN (IF rot.x_flip THEN WIDTH - 1 - a.x ELSE a.x)
                ELSE (IF rot.x_flip THEN WIDTH - 1 - a.y ELSE a.y)
        dx_d == IF rot.x_flip THEN -a.scale ELSE a.scale
        dy_s == IF ~rot.swap THEN (IF rot.y_flip THEN HEIGHT - 1 - a.y ELSE a.y)
                ELSE (IF rot.y_flip THEN HEIGHT - 1 - a.x ELSE a.x)
        dy_d == IF rot.y_flip THEN -a.scale ELSE a.scale
        px == IF ~rot.swap THEN dx_s + col_idx * dx_d ELSE dx_s + row * dx_d
        py == IF ~rot.swap THEN dy_s + row * dy_d ELSE dy_s + col_idx * dy_d
        rpx == IF ~rot.swap THEN px + (IF ~rot.x_flip THEN sx ELSE -sx)
               ELSE px + (IF ~rot.x_flip THEN sy ELSE -sy)
        rpy == IF ~rot.swap THEN py + (IF ~rot.y_flip THEN sy ELSE -sy)
               ELSE py + (IF ~rot.y_flip THEN sx ELSE -sx)
        idx == rpy * _row_bytes(b) + (rpx \div 8)
        bit == 7 - (rpx % 8)
    IN  IF ~set THEN b1
        ELSE IF ~(0 <= rpx /\ rpx < WIDTH /\ 0 <= rpy /\ rpy < HEIGHT) THEN b1
        ELSE IF a.col # 0 THEN setitem(b1, idx, 255, 2 ^ bit)
        ELSE setitem(b1, idx, 255 - (2 ^ bit), 0)

(* _render_fast on the buffer b, col the effective color of the context *)
_render_fast(b, col, data, x, y, w, h, bpr, scale) ==
    LET lw == width(b)
        lh == height(b)
        glyph_w == w * scale
        glyph_h == h * scale
    IN  IF x >= lw \/ y >= lh \/ x + glyph_w <= 0 \/ y + glyph_h <= 0 THEN b
        ELSE
        LET col_start == IF x < 0 THEN (-x + scale - 1) \div scale ELSE 0
            col_end == IF x + glyph_w > lw THEN (lw - x + scale - 1) \div scale ELSE w
            row_start == IF y < 0 THEN (-y + scale - 1) \div scale ELSE 0
            row_end == IF y + glyph_h > lh THEN (lh - y + scale - 1) \div scale ELSE h
        IN  IF col_start >= col_end \/ row_start >= row_end THEN b
            ELSE _render_loop(b, data,
                              [x |-> x, y |-> y, bpr |-> bpr, scale |-> scale,
                               col |-> col, row_start |-> row_start,
                               col_start |-> col_start, col_end |-> col_end],
                              (row_end - row_start) * (col_end - col_start)
                                  * scale * scale - 1)

(* draw: the loop "for g in glyphs" from glyph i on, cx the pen position *)
RECURSIVE render_glyphs(_, _, _, _, _, _, _, _)
render_glyphs(b, col, glyphs, i, cx, y, fallback_w, scale) ==
    IF i > Len(glyphs) THEN b
    ELSE IF glyphs[i] = <<>>
    THEN render_glyphs(b, col, glyphs, i + 1, cx + fallback_w * scale, y,
                       fallback_w, scale)
    ELSE LET g == glyphs[i]
         IN  render_glyphs(_render_fast(b, col, g.data, cx, y, g.w, g.h, g.bpr, scale),
                           col, glyphs, i + 1, cx + (g.w + 1) * scale, y,
                           fallback_w, scale)

(* draw: the renderer, the buffer, the glyphs looked up and the width *)
draw(t, b, chars, x, y, color, scale, align) ==
    IF t.fonts = <<>> THEN [t |-> t, b |-> b, res |-> <<>>, width |-> 0]
    ELSE LET col == _effective_color(b, color)
             fallback_w == t.fonts[1].def_w
             r == get_glyphs(t, chars)
             total_width == sum_widths(r.res, fallback_w, scale)
                            - (IF r.res # <<>> THEN scale ELSE 0)
             x0 == IF align = "center" THEN x - (total_width \div 2)
                   ELSE IF align = "right" THEN x - total_width
                   ELSE x
         IN  [t |-> r.t,
              b |-> render_glyphs(b, col, r.res, 1, x0, y, fallback_w, scale),
              res |-> r.res, width |-> total_width]

(* The strings the calls are made with: code points 1..3 are in some font, *)
(* 4 is in none.                                                           *)
Strings == {<<>>, <<1>>, <<2>>, <<3>>, <<4>>, <<1, 2>>, <<3, 2>>, <<2, 1, 2>>,
            <<1, 2, 3>>}
FontPaths == {"a", "b", "c", "missing"}

-----------------------------------------------------------------------------
(* A call starts from the current fields and ends by storing them back.    *)
(* Between calls (call.op = "idle") the record of the last call is empty.  *)
Begin(fail_at) ==
    [state |-> state, has_basemap |-> has_basemap, partial_count |-> partial_count,
     partial_threshold |-> partial_threshold, in_partial_mode |-> in_partial_mode,
     is_initial |-> is_initial, prev_buffer |-> prev_buffer, panel |-> panel,
     trace |-> <<>>, refreshed |-> <<>>, err |-> "none", during |-> <<>>,
     has_miso |-> has_miso, depth |-> depth, waits |-> 0, fail_at |-> fail_at,
     busy_at |-> 0]

(* The wait_ready call at which BUSY stays high, for an operation that     *)
(* waits at most n times: the first, the second, ..., or none (0).         *)
FailPoints(n) == 0..Min(n, MaxFailAt)

Snapshot ==
    [state |-> state, has_basemap |-> has_basemap, partial_count |-> partial_count,
     partial_threshold |-> partial_threshold, in_partial_mode |-> in_partial_mode,
     is_initial |-> is_initial, prev_buffer |-> prev_buffer, panel |-> panel,
     last_refresh |-> last_refresh, partials_since_full |-> partials_since_full,
     inversion |-> inversion]

(* The partial refreshes since the last full one, after the refreshes      *)
(* `modes` have completed in this order.  The number is -1 (not followed)  *)
(* from the moment the caller assigns partial_count until the next full    *)
(* refresh.                                                                *)
RECURSIVE CountPartials(_, _)
CountPartials(n, modes) ==
    IF modes = <<>> THEN n
    ELSE CountPartials(IF Head(modes) = SEQ_FULL THEN 0
                       ELSE IF Head(modes) = SEQ_PARTIAL /\ n >= 0 THEN n + 1 ELSE n,
                       Tail(modes))

Idle == [op |-> "idle"]

Store(m, c) ==
    /\ state' = m.state
    /\ has_basemap' = m.has_basemap
    /\ partial_count' = m.partial_count
    /\ partial_threshold' = m.partial_threshold
    /\ in_partial_mode' = m.in_partial_mode
    /\ is_initial' = m.is_initial
    /\ prev_buffer' = m.prev_buffer
    /\ panel' = m.panel
    /\ trace' = m.trace
    /\ refreshed' = m.refreshed
    /\ err' = m.err
    /\ during' = m.during
    /\ call' = c
    /\ pre' = Snapshot
    /\ last_refresh' = IF m.refreshed = <<>> THEN last_refresh
                       ELSE m.refreshed[Len(m.refreshed)]
    /\ partials_since_full' = IF c.op = "partial_count" THEN -1
                              ELSE CountPartials(partials_since_full, m.refreshed)
    /\ inversion' = IF c.op \in {"set_invert", "invert_display"}
                    THEN IF Ok(m) THEN invert_byte(c.invert_bw, c.invert_red) ELSE -1
                    ELSE IF m.during # <<>> THEN -1 ELSE inversion
    /\ UNCHANGED <<has_miso, depth, fb, text>>

End(m, c) ==
    /\ call = Idle
    /\ Store(m, c)

(* The caller has its result (or exception); the record of the call is     *)
(* dropped, the driver is untouched.                                       *)
Return ==
    /\ call # Idle
    /\ call' = Idle
    /\ trace' = <<>>
    /\ refreshed' = <<>>
    /\ err' = "none"
    /\ during' = <<>>
    /\ pre' = <<>>
    /\ UNCHANGED <<state, has_basemap, partial_count, partial_threshold,
                   in_partial_mode, is_initial, prev_buffer, panel,
                   last_refresh, partials_since_full, has_miso, depth, inversion, fb,
                   text>>

(* The controller at power-on. *)
PowerOn ==
    [xs |-> 0, xe |-> WIDTH \div 8 - 1, ys |-> 0, ye |-> HEIGHT - 1,
     cx |-> 0, cy |-> 0, ram_bw |-> Fill(0, BUFFER_SIZE),
     ctrl1 |-> 0, programmed |-> {}]

(* SSD1680.__init__ with use_diff_buffer either way, DriverState(), on the *)
(* controller p.  The default partial_threshold (10 in the source) is      *)
(* MaxThreshold here.                                                      *)
InitDriverOn(p) ==
    /\ state = UNINITIALIZED
    /\ has_basemap = FALSE
    /\ partial_count = 0
    /\ partial_threshold = MaxThreshold
    /\ in_partial_mode = FALSE
    /\ is_initial = TRUE
    /\ prev_buffer \in {Fill(0, BUFFER_SIZE), <<>>}
    /\ panel = p
    /\ call = Idle
    /\ trace = <<>>
    /\ refreshed = <<>>
    /\ err = "none"
    /\ during = <<>>
    /\ pre = <<>>
    /\ last_refresh = 0
    /\ partials_since_full = 0
    /\ inversion = -1

InitDriver == InitDriverOn(PowerOn)

(* The board of the project: a transport without MISO, a 1-bit canvas. *)
Init ==
    /\ InitDriver
    /\ has_miso = FALSE
    /\ depth = 1
    /\ fb = FrameBuffer(depth, 90)
    /\ text = TextRenderer(MaxCache)

(* The driver on a transport with or without MISO. *)
InitExt ==
    /\ InitDriver
    /\ has_miso \in BOOLEAN
    /\ depth = 1
    /\ fb = FrameBuffer(depth, 90)
    /\ text = TextRenderer(MaxCache)

(* A Canvas of either depth over the driver. *)
InitCanvas ==
    /\ InitDriver
    /\ has_miso = FALSE
    /\ depth \in {1, 2}
    /\ fb = FrameBuffer(depth, 90)
    /\ text = TextRenderer(MaxCache)

CallInit(clear_arg, f) ==
    End(init(Begin(f), clear_arg), [op |-> "init", clear |-> clear_arg])

CallClear(color, f) ==
    End(clear(Begin(f), color), [op |-> "clear", color |-> color])

CallDisplay(data, full, force_full, stay_awake, f) ==
    /\ full \/ partial_count < MaxPartialCount
    /\ End(display(Begin(f), data, full, force_full, stay_awake),
           [op |-> "display", data |-> data, full |-> full,
            force_full |-> force_full, stay_awake |-> stay_awake])

CallDisplayLut(lut, black, red, f) ==
    End(display_lut(Begin(f), lut, black, red),
        [op |-> "display_lut", black |-> black, red |-> red])

CallDisplayGray(black, red, f) ==
    End(display_gray(Begin(f), black, red),
        [op |-> "display_gray", black |-> black, red |-> red])

CallDisplayRegion(r, f) ==
    /\ partial_count < MaxPartialCount
    /\ End(display_region(Begin(f), r.data, r.x, r.y, r.w, r.h),
           [op |-> "display_region", regions |-> <<r>>])

CallDisplayRegions(regions, f) ==
    /\ partial_count < MaxPartialCount
    /\ End(display_regions(Begin(f), regions),
           [op |-> "display_regions", regions |-> regions])

CallSleep(retain_ram, f) ==
    End(sleep(Begin(f), retain_ram), [op |-> "sleep", retain_ram |-> retain_ram])

CallWake ==
    End(wake(Begin(0)), [op |-> "wake"])

CallFastClear(color, f) ==
    End(fast_clear(Begin(f), color), [op |-> "fast_clear", color |-> color])

(* the partial_threshold setter *)
SetPartialThreshold(value) ==
    End([Begin(0) EXCEPT !.partial_threshold = value],
        [op |-> "partial_threshold", value |-> value])

(* the partial_count setter *)
SetPartialCount(value) ==
    End([Begin(0) EXCEPT !.partial_count = value],
        [op |-> "partial_count", value |-> value])

CallSetInvert(invert_bw, invert_red, f) ==
    End(set_invert(Begin(f), invert_bw, invert_red),
        [op |-> "set_invert", invert_bw |-> invert_bw, invert_red |-> invert_red])

CallSetGateStart(position) ==
    End(set_gate_start(Begin(0), position), [op |-> "set_gate_start"])

CallReadTemperature(f) ==
    End(read_temperature(Begin(f)), [op |-> "read_temperature"])

CallCheckTemperature(f) ==
    End(check_temperature(Begin(f)), [op |-> "check_temperature"])

CallReadStatus(f) ==
    End(read_status(Begin(f)), [op |-> "read_status"])

CallReadOtpInfo(f) ==
    End(read_otp_info(Begin(f)), [op |-> "read_otp_info"])

CallCalculateCrc(f) ==
    End(calculate_crc(Begin(f)), [op |-> "calculate_crc"])

CallFullRefresh(mono, black, red, f) ==
    End(full_refresh(Begin(f), mono, black, red), [op |-> "full_refresh"])

CallPartialRefresh(mono, black, red, f) ==
    /\ partial_count < MaxPartialCount
    /\ End(partial_refresh(Begin(f), mono, black, red), [op |-> "partial_refresh"])

CallCustomRefresh(lut, mono, black, red, f) ==
    End(custom_refresh(Begin(f), lut, mono, black, red), [op |-> "custom_refresh"])

CallRefresh(force_full, mono, black, red, f) ==
    /\ partial_count < MaxPartialCount
    /\ End(refresh(Begin(f), force_full, mono, black, red),
           [op |-> "refresh", force_full |-> force_full])

CallInvertDisplay(inverted, f) ==
    End(invert_display(Begin(f), inverted),
        [op |-> "invert_display", invert_bw |-> inverted, invert_red |-> FALSE])

(* The driver's control: every operation with every flag, a BUSY timeout   *)
(* at every wait, any threshold; the image data is white throughout (no    *)
(* branch of the driver reads the contents of a frame).  The waits an      *)
(* operation makes at most: _init_full 3, _init_partial 1, _update 1,      *)
(* _auto_fill 2, sleep 1.                                                  *)
Next ==
    \/ \E c \in BOOLEAN : \E f \in FailPoints(5) : CallInit(c, f)
    \/ \E f \in FailPoints(5) : CallClear(255, f)
    \/ \E full \in BOOLEAN, ff \in BOOLEAN, sa \in BOOLEAN :
          \E f \in FailPoints(5) :
             (full => ~ff) /\ CallDisplay(White, full, ff, sa, f)
    \/ CallDisplay(ShortFrame, FALSE, FALSE, TRUE, 0)
    \/ \E r \in {<<>>, White} :
          \E f \in FailPoints(4) :
             CallDisplayLut(CustomLut, White, r, f)
    \/ \E f \in FailPoints(4) :
          CallDisplayGray(White, White, f)
    \/ \E r \in Regions(255) :
          \E f \in FailPoints(2) :
             CallDisplayRegion(r, f)
    \/ \E rs \in RegionLists(255) :
          \E f \in FailPoints(2) : CallDisplayRegions(rs, f)
    \/ \E r \in BOOLEAN : \E f \in FailPoints(1) : CallSleep(r, f)
    \/ CallWake
    \/ \E f \in FailPoints(7) : CallFastClear(255, f)
    \/ \E v \in 0..MaxThreshold : SetPartialThreshold(v)
    \/ \E v \in 0..MaxPartialCount : SetPartialCount(v)
    \/ Return

Spec == Init /\ [][Next]_vars

(* The same board and calls, with the border waveform register followed. *)
InitBorder ==
    /\ InitDriverOn(PowerOn @@ [border |-> -1])
    /\ has_miso = FALSE
    /\ depth = 1
    /\ fb = FrameBuffer(depth, 90)
    /\ text = TextRenderer(MaxCache)

SpecBorder == InitBorder /\ [][Next]_vars

(* The driver's data: every operation with frames, fill bytes and regions  *)
(* of differing contents, BUSY always going low.                           *)
NextData ==
    \/ \E c \in BOOLEAN : CallInit(c, 0)
    \/ \E c \in {255, 128} : CallClear(c, 0)
    \/ \E d \in {White, Ramp}, full \in BOOLEAN, ff \in BOOLEAN, sa \in BOOLEAN :
          (full => ~ff) /\ CallDisplay(d, full, ff, sa, 0)
    \/ CallDisplay(ShortFrame, FALSE, FALSE, TRUE, 0)
    \/ \E b \in {White, Ramp}, r \in {<<>>, White} : CallDisplayLut(CustomLut, b, r, 0)
    \/ \E b \in {White, Ramp} : CallDisplayGray(b, White, 0)
    \/ \E r \in Regions(0) : CallDisplayRegion(r, 0)
    \/ \E rs \in RegionLists(0) : CallDisplayRegions(rs, 0)
    \/ \E r \in BOOLEAN : CallSleep(r, 0)
    \/ CallWake
    \/ \E c \in {255, 128} : CallFastClear(c, 0)
    \/ Return

SpecData == Init /\ [][NextData]_vars

(* The driver's whole surface: the refreshes, the hardware features and   *)
(* the diagnostics, on a transport with or without MISO, a BUSY timeout    *)
(* at every wait; white frames.  The waits the diagnostics make at most:   *)
(* _init_full 3, then read_temperature 2, read_status 4, read_otp_info 2,  *)
(* calculate_crc 2.                                                        *)
NextExt ==
    \/ \E c \in BOOLEAN : \E f \in FailPoints(5) : CallInit(c, f)
    \/ \E f \in FailPoints(5) : CallClear(255, f)
    \/ \E full \in BOOLEAN, sa \in BOOLEAN :
          \E f \in FailPoints(5) : CallDisplay(White, full, FALSE, sa, f)
    \/ \E f \in FailPoints(4) : CallDisplayLut(CustomLut, White, <<>>, f)
    \/ \E f \in FailPoints(4) : CallDisplayGray(White, White, f)
    \/ \E f \in FailPoints(2) : CallDisplayRegion(RegA(255), f)
    \/ \E f \in FailPoints(2) : CallDisplayRegions(<<RegB(255), RegA(255)>>, f)
    \/ \E r \in BOOLEAN : \E f \in FailPoints(1) : CallSleep(r, f)
    \/ CallWake
    \/ \E f \in FailPoints(7) : CallFastClear(255, f)
    \/ \E bw \in BOOLEAN, red \in BOOLEAN : \E f \in FailPoints(1) :
          CallSetInvert(bw, red, f)
    \/ CallSetGateStart(257)
    \/ \E f \in FailPoints(5) : CallReadTemperature(f)
    \/ \E f \in FailPoints(5) : CallCheckTemperature(f)
    \/ \E f \in FailPoints(7) : CallReadStatus(f)
    \/ \E f \in FailPoints(5) : CallReadOtpInfo(f)
    \/ \E f \in FailPoints(5) : CallCalculateCrc(f)
    \/ Return

SpecExt == InitExt /\ [][NextExt]_vars

(* Region updates as any caller can make them: the regions are aligned,   *)
(* their position and the length of their data are not checked by the      *)
(* driver.  BUSY always goes low.                                          *)
NextRegions ==
    \/ CallInit(TRUE, 0)
    \/ \E full \in BOOLEAN, sa \in BOOLEAN : CallDisplay(White, full, FALSE, sa, 0)
    \/ \E r \in {RegA(255), RegShort, RegBelow} : CallDisplayRegion(r, 0)
    \/ \E rs \in {<<RegA(255), RegB(255)>>, <<RegShort, RegBelow>>} :
          CallDisplayRegions(rs, 0)
    \/ CallSleep(TRUE, 0)
    \/ Return

SpecRegions == Init /\ [][NextRegions]_vars

(* The Canvas: init and sleep hand over to the driver's init and sleep(),  *)
(* the refreshes pick the driver call by the buffer's depth.               *)
NextCanvas ==
    \/ \E c \in BOOLEAN : CallInit(c, 0)
    \/ CallFullRefresh(White, White, White, 0)
    \/ CallPartialRefresh(White, White, White, 0)
    \/ CallCustomRefresh(CustomLut, White, White, White, 0)
    \/ \E ff \in BOOLEAN : CallRefresh(ff, White, White, White, 0)
    \/ CallSleep(TRUE, 0)
    \/ \E inv \in BOOLEAN : CallInvertDisplay(inv, 0)
    \/ Return

SpecCanvas == InitCanvas /\ [][NextCanvas]_vars

-----------------------------------------------------------------------------
(* Reading the record of a call. *)
Range(seq) == {seq[i] : i \in 1..Len(seq)}

(* The places of the trace where the command `cmd` was sent. *)
Sent(cmd) == {i \in 1..Len(trace) : trace[i].cmd = cmd}

(* The places where ACTIVATE follows the UPDATE_CTRL2 write of `mode`. *)
Activations(mode) ==
    {i \in Sent(CMD_ACTIVATE) :
        i > 1 /\ trace[i - 1] = [cmd |-> CMD_UPDATE_CTRL2, data |-> <<mode>>]}

(* UPDATE_CTRL2 was written with `mode` somewhere in the call. *)
Selected(mode) == \E i \in Sent(CMD_UPDATE_CTRL2) : trace[i].data = <<mode>>

(* display(data, full=False, ...) with a frame of the right size *)
IsPartialCall ==
    /\ call.op = "display"
    /\ ~call.full
    /\ Len(call.data) = BUFFER_SIZE

(* ... and force_full=False *)
IsPartialRequest == IsPartialCall /\ ~call.force_full

(* The request was carried out as a full refresh: no partial sequence was  *)
(* selected, any refresh that completed is the full one, and a call that   *)
(* returned has activated it.                                              *)
EscalatedToFull ==
    /\ ~Selected(SEQ_PARTIAL)
    /\ refreshed \in {<<>>, <<SEQ_FULL>>}
    /\ err = "none" => refreshed = <<SEQ_FULL>> /\ Cardinality(Activations(SEQ_FULL)) = 1

(* The request was carried out as a partial refresh. *)
StayedPartial ==
    /\ ~Selected(SEQ_FULL)
    /\ refreshed \in {<<>>, <<SEQ_PARTIAL>>}
    /\ err = "none" => refreshed = <<SEQ_PARTIAL>>
                       /\ Cardinality(Activations(SEQ_PARTIAL)) = 1

IsRegionCall == call.op \in {"display_regions", "display_region"}

-----------------------------------------------------------------------------
(* C1: a partial activation (UPDATE_CTRL2 = SEQ_PARTIAL, then ACTIVATE) is *)
(* sent only by a call made with has_basemap true and is_initial false,    *)
(* which leaves them so; a display(full=False) made when that does not     *)
(* hold is carried out as a full refresh (SEQ_FULL) instead.               *)
C1_PartialOnlyWithBasemap ==
    call # Idle =>
        /\ Selected(SEQ_PARTIAL) =>
              pre.has_basemap /\ ~pre.is_initial /\ has_basemap /\ ~is_initial
        /\ IsPartialCall /\ ~(pre.has_basemap /\ ~pre.is_initial) => EscalatedToFull

(* A display(full=False) on a driver that had lost its basemap (not the    *)
(* first refresh) came back as a completed full refresh.                   *)
C1_Witness ==
    /\ IsPartialCall
    /\ ~pre.has_basemap /\ ~pre.is_initial
    /\ err = "none"
    /\ Activations(SEQ_FULL) # {}

(* C2: unless the caller assigns it, partial_count is the number of        *)
(* partial refreshes completed since the last full one.  With              *)
(* partial_threshold = T > 0, a display(full=False) made when that number  *)
(* (partial_count) has reached T is carried out as a full refresh and      *)
(* leaves partial_count = 0; one made with a basemap before it has reached *)
(* T, or with T = 0 whatever the count, is carried out as a partial        *)
(* refresh and adds one to partial_count.                                  *)
C2_ThresholdEscalation ==
    /\ partials_since_full >= 0 => partial_count = partials_since_full
    /\ IsPartialRequest /\ pre.partial_threshold > 0
         /\ pre.partial_count >= pre.partial_threshold =>
            /\ EscalatedToFull
            /\ refreshed = <<SEQ_FULL>> => partial_count = 0
    /\ IsPartialRequest /\ pre.has_basemap /\ ~pre.is_initial
         /\ (pre.partial_threshold = 0
             \/ pre.partial_count < pre.partial_threshold) =>
            /\ StayedPartial
            /\ refreshed = <<SEQ_PARTIAL>> => partial_count = pre.partial_count + 1

(* The (T+1)-th display(full=False) after a full refresh, T = MaxThreshold, *)
(* with a basemap: it completed as a full refresh and the count is 0.      *)
C2_Witness ==
    /\ IsPartialRequest
    /\ pre.has_basemap /\ ~pre.is_initial
    /\ pre.partial_threshold = MaxThreshold
    /\ pre.partials_since_full = pre.partial_threshold
    /\ refreshed = <<SEQ_FULL>>
    /\ partial_count = 0

(* C3: once display_lut or display_gray has completed, has_basemap is      *)
(* false and stays false until a full refresh completes (no call makes it  *)
(* true without completing one), so a display(full=False) made while the   *)
(* custom-LUT refresh is the last refresh is carried out as a full one.    *)
C3_LutInvalidatesBasemap ==
    /\ last_refresh = SEQ_CUSTOM_LUT => ~has_basemap
    /\ call # Idle /\ call.op \in {"display_lut", "display_gray"} /\ err = "none" =>
          ~has_basemap /\ last_refresh = SEQ_CUSTOM_LUT
    /\ call # Idle /\ has_basemap /\ ~pre.has_basemap => SEQ_FULL \in Range(refreshed)
    /\ IsPartialRequest /\ pre.last_refresh = SEQ_CUSTOM_LUT => EscalatedToFull

(* display(full=False) right after a custom-LUT refresh that followed a    *)
(* full refresh: it was sent as SEQ_FULL.                                  *)
C3_Witness ==
    /\ IsPartialRequest
    /\ pre.last_refresh = SEQ_CUSTOM_LUT
    /\ ~pre.is_initial
    /\ err = "none"
    /\ Activations(SEQ_FULL) # {}

(* C4: a call in which a full refresh completed (display(full=True), an    *)
(* escalated display(full=False), clear, fast_clear, init(clear=True))     *)
(* leaves partial_count = 0, has_basemap = true, is_initial = false and    *)
(* in_partial_mode = false, whether or not it then slept.                  *)
C4_AfterFullRefresh ==
    call # Idle /\ SEQ_FULL \in Range(refreshed) =>
        /\ partial_count = 0
        /\ has_basemap
        /\ ~is_initial
        /\ ~in_partial_mode

(* A full refresh that ended a run of partial refreshes and stayed awake.  *)
C4_Witness ==
    /\ call # Idle
    /\ SEQ_FULL \in Range(refreshed)
    /\ pre.partial_count > 0
    /\ pre.in_partial_mode
    /\ state = READY

-----------------------------------------------------------------------------
(* display(full=False) went down the partial path while _prev_buffer was   *)
(* enabled, and returned.                                                  *)
TookPartialPath ==
    /\ IsPartialCall
    /\ Selected(SEQ_PARTIAL)
    /\ pre.prev_buffer # <<>>
    /\ err = "none"

(* RED RAM was written once, with the frame _prev_buffer held before the   *)
(* call, then BW RAM once, with the new frame, both before the activation. *)
RedThenBw ==
    \E i \in Sent(CMD_RAM_RED), j \in Sent(CMD_RAM_BLACK) :
        /\ Sent(CMD_RAM_RED) = {i}
        /\ Sent(CMD_RAM_BLACK) = {j}
        /\ i < j
        /\ trace[i].data = pre.prev_buffer
        /\ trace[j].data = call.data
        /\ \A a \in Sent(CMD_ACTIVATE) : j < a

(* What every partial-path call leaves behind, asleep or awake. *)
PartialPathEffects ==
    /\ RedThenBw
    /\ Cardinality(Activations(SEQ_PARTIAL)) = 1
    /\ Cardinality({i \in Sent(CMD_UPDATE_CTRL2) : trace[i].data = <<SEQ_PARTIAL>>}) = 1
    /\ prev_buffer = call.data
    /\ partial_count = pre.partial_count + 1
    /\ has_basemap = pre.has_basemap

(* C5: a display(full=False) that takes the partial path with _prev_buffer *)
(* enabled and returns writes the previous frame to RED RAM, then the new  *)
(* frame to BW RAM, then UPDATE_CTRL2(SEQ_PARTIAL) once, followed at once  *)
(* by ACTIVATE; the only other ACTIVATE is the power-off of the sleep that *)
(* ends a call with stay_awake=False.  Afterwards _prev_buffer is the new  *)
(* frame, partial_count is one more, has_basemap is unchanged, and         *)
(* in_partial_mode is true exactly when stay_awake was (the closing sleep  *)
(* clears it and leaves the state SLEEPING).                               *)
C5_PartialPath ==
    TookPartialPath =>
        /\ PartialPathEffects
        /\ Sent(CMD_ACTIVATE) = Activations(SEQ_PARTIAL) \cup Activations(SEQ_POWER_OFF)
        /\ Cardinality(Activations(SEQ_POWER_OFF)) = IF call.stay_awake THEN 0 ELSE 1
        /\ in_partial_mode = call.stay_awake
        /\ state = IF call.stay_awake THEN READY ELSE SLEEPING

(* A partial refresh of a frame that differs from the one shown, ending in *)
(* sleep (display's default).                                              *)
C5_Witness ==
    /\ TookPartialPath
    /\ ~call.stay_awake
    /\ call.data # pre.prev_buffer
    /\ state = SLEEPING

(* C5 as stated: one ACTIVATE after UPDATE_CTRL2(SEQ_PARTIAL) and          *)
(* in_partial_mode true after every such call.                             *)
C5_AsStated ==
    TookPartialPath =>
        /\ PartialPathEffects
        /\ \A i \in Sent(CMD_UPDATE_CTRL2) :
              trace[i].data = <<SEQ_PARTIAL>> =>
                  Cardinality({a \in Sent(CMD_ACTIVATE) : a > i}) = 1
        /\ in_partial_mode

(* C6: between calls, _prev_buffer (when enabled) equals the contents the  *)
(* driver's writes have left in BW RAM.                                    *)
C6_PrevEqualsBwRam ==
    call = Idle /\ prev_buffer # <<>> => prev_buffer = panel.ram_bw

(* C7: a display_regions / display_region call sends at most one ACTIVATE, *)
(* after every RAM_RED / RAM_BLACK write of the call; a call with a        *)
(* non-empty list that returns sends exactly one, the partial activation;  *)
(* a call with an empty list (and a basemap) returns having sent nothing.  *)
C7_OneActivation ==
    IsRegionCall =>
        /\ Cardinality(Sent(CMD_ACTIVATE)) <= 1
        /\ \A a \in Sent(CMD_ACTIVATE) :
              \A i \in Sent(CMD_RAM_RED) \cup Sent(CMD_RAM_BLACK) : i < a
        /\ err = "none" /\ call.regions # <<>> =>
              /\ Cardinality(Sent(CMD_ACTIVATE)) = 1
              /\ Sent(CMD_ACTIVATE) = Activations(SEQ_PARTIAL)
              /\ Sent(CMD_ACTIVATE) = {Len(trace)}
              /\ Cardinality(Sent(CMD_RAM_BLACK)) = Len(call.regions)
              /\ refreshed = <<SEQ_PARTIAL>>
        /\ pre.has_basemap /\ call.regions = <<>> =>
              err = "none" /\ trace = <<>> /\ refreshed = <<>>

(* Three regions went out under one activation. *)
C7_Witness ==
    /\ call.op = "display_regions"
    /\ Len(call.regions) = 3
    /\ err = "none"
    /\ Cardinality(Sent(CMD_RAM_BLACK)) = 3
    /\ Cardinality(Sent(CMD_ACTIVATE)) = 1

(* C7 as stated: every call that display_regions accepts (returns from)    *)
(* sends exactly one ACTIVATE.                                             *)
C7_AsStated ==
    IsRegionCall /\ err = "none" => Cardinality(Sent(CMD_ACTIVATE)) = 1

-----------------------------------------------------------------------------
(* Regions and frames, byte by byte.  A frame holds WIDTH \div 8 bytes per *)
(* row; byte number idx (from 0) is column idx % stride of row             *)
(* idx \div stride.                                                        *)
Covers(r, idx) ==
    LET row == idx \div (WIDTH \div 8)
        col == idx % (WIDTH \div 8)
    IN  /\ row >= r.y /\ row < r.y + r.h
        /\ col >= r.x \div 8 /\ col < (r.x + r.w) \div 8

(* The byte a region supplies for byte idx of the frame. *)
RegionByte(r, idx) ==
    LET row == idx \div (WIDTH \div 8)
        col == idx % (WIDTH \div 8)
    IN  r.data[(row - r.y) * (r.w \div 8) + (col - (r.x \div 8)) + 1]

(* The frame `prev` once the first k regions of the list have been laid    *)
(* over it, a later region over an earlier one.                            *)
Overlaid(prev, regions, k) ==
    [i \in 1..Len(prev) |->
        LET over == {j \in 1..k : Covers(regions[j], i - 1)}
        IN  IF over = {} THEN prev[i]
            ELSE RegionByte(regions[CHOOSE j \in over : \A j2 \in over : j2 <= j], i - 1)]

(* The rows of region r cut out of a frame. *)
RowsOf(frame, r) ==
    [n \in 1..((r.w \div 8) * r.h) |->
        frame[(r.y + ((n - 1) \div (r.w \div 8))) * (WIDTH \div 8)
              + (r.x \div 8) + ((n - 1) % (r.w \div 8)) + 1]]

(* What one region's step sends when RED RAM is to receive `stale`. *)
RegionBlock(r, stale) ==
    LET y_end == r.y + r.h - 1
    IN  << [cmd |-> CMD_RAM_X, data |-> <<r.x \div 8, (r.x + r.w - 1) \div 8>>],
           [cmd |-> CMD_RAM_Y,
            data |-> <<r.y % 256, r.y \div 256, y_end % 256, y_end \div 256>>],
           [cmd |-> CMD_RAM_X_CNT, data |-> <<r.x \div 8>>],
           [cmd |-> CMD_RAM_Y_CNT, data |-> <<r.y % 256, r.y \div 256>>],
           [cmd |-> CMD_RAM_RED, data |-> stale],
           [cmd |-> CMD_RAM_X_CNT, data |-> <<r.x \div 8>>],
           [cmd |-> CMD_RAM_Y_CNT, data |-> <<r.y % 256, r.y \div 256>>],
           [cmd |-> CMD_RAM_BLACK, data |-> r.data] >>

(* A display_regions / display_region call with a non-empty list and with  *)
(* _prev_buffer enabled that has returned.                                 *)
RegionsDone ==
    /\ IsRegionCall
    /\ call.regions # <<>>
    /\ pre.prev_buffer # <<>>
    /\ err = "none"

(* The trace ends with one block per region, in list order, then the       *)
(* partial activation; the RED write of each block carries the region's    *)
(* rows of _prev_buffer as the regions before it have left it.             *)
RegionTrace ==
    LET n == Len(call.regions)
        base == Len(trace) - 2 - 8 * n
    IN  /\ base >= 0
        /\ \A k \in 1..n :
              SubSeq(trace, base + 8 * (k - 1) + 1, base + 8 * k)
                = RegionBlock(call.regions[k],
                              RowsOf(Overlaid(pre.prev_buffer, call.regions, k - 1),
                                     call.regions[k]))
        /\ SubSeq(trace, Len(trace) - 1, Len(trace))
             = << [cmd |-> CMD_UPDATE_CTRL2, data |-> <<SEQ_PARTIAL>>],
                  [cmd |-> CMD_ACTIVATE, data |-> <<>>] >>

(* C8: in a display_regions call (well-formed regions, _prev_buffer        *)
(* enabled) each region, in list order, sends its window (RAM_X start byte *)
(* x/8), its counters, a RED RAM write of that region's stale bytes taken  *)
(* from _prev_buffer as the earlier regions of the list left it, the       *)
(* counters again, then a BW RAM write of its new data; after the call     *)
(* every byte of _prev_buffer covered by the list holds the data of the    *)
(* last region covering it and every other byte is unchanged, so the rows  *)
(* of a region that no later region overlaps equal its new data.           *)
C8_RegionOrder ==
    RegionsDone =>
        /\ RegionTrace
        /\ prev_buffer = Overlaid(pre.prev_buffer, call.regions, Len(call.regions))
        /\ panel.ram_bw = Overlaid(pre.panel.ram_bw, call.regions, Len(call.regions))
        /\ \A k \in 1..Len(call.regions) :
              (\A j \in (k + 1)..Len(call.regions), i \in 0..(BUFFER_SIZE - 1) :
                   ~(Covers(call.regions[k], i) /\ Covers(call.regions[j], i)))
              => RowsOf(prev_buffer, call.regions[k]) = call.regions[k].data

(* Two overlapping regions in one call: the second one's stale bytes       *)
(* include a byte the first had just patched.                              *)
C8_Witness ==
    /\ RegionsDone
    /\ Len(call.regions) = 2
    /\ \E i \in 0..(BUFFER_SIZE - 1) :
          Covers(call.regions[1], i) /\ Covers(call.regions[2], i)
    /\ RowsOf(prev_buffer, call.regions[2]) = call.regions[2].data
    /\ RowsOf(prev_buffer, call.regions[1]) # call.regions[1].data

(* C8 as stated: after the call the rows of every region of the list equal *)
(* that region's new data.                                                 *)
C8_AsStated ==
    RegionsDone =>
        /\ RegionTrace
        /\ \A k \in 1..Len(call.regions) :
              RowsOf(prev_buffer, call.regions[k]) = call.regions[k].data

(* Nothing was sent and nothing changed. *)
Untouched ==
    /\ trace = <<>>
    /\ refreshed = <<>>
    /\ state = pre.state
    /\ has_basemap = pre.has_basemap
    /\ partial_count = pre.partial_count
    /\ partial_threshold = pre.partial_threshold
    /\ in_partial_mode = pre.in_partial_mode
    /\ is_initial = pre.is_initial
    /\ prev_buffer = pre.prev_buffer
    /\ panel = pre.panel

Misaligned(r) == r.x % 8 # 0 \/ r.w % 8 # 0

(* C9: a display_regions / display_region call (with a basemap) whose list *)
(* holds a misaligned region, and a display call with a frame of the wrong *)
(* length, raise ValueError having sent nothing and changed nothing.       *)
C9_RejectBeforeEmit ==
    /\ IsRegionCall /\ pre.has_basemap
         /\ (\E k \in 1..Len(call.regions) : Misaligned(call.regions[k])) =>
            err = "ValueError" /\ Untouched
    /\ call.op = "display" /\ Len(call.data) # BUFFER_SIZE =>
            err = "ValueError" /\ Untouched

(* C10: display_regions / display_region called while has_basemap is false *)
(* raises RuntimeError having sent no command and no hardware reset, and   *)
(* leaves the DriverState fields, _prev_buffer and the panel as they were, *)
(* whatever the list (empty, misaligned) and whatever made has_basemap     *)
(* false.                                                                  *)
C10_NoBasemapNotReady ==
    IsRegionCall /\ ~pre.has_basemap => err = "RuntimeError" /\ Untouched

(* The refusal after sleep(retain_ram=False) had dropped the basemap. *)
C10_Witness ==
    /\ IsRegionCall
    /\ ~pre.has_basemap
    /\ ~pre.is_initial
    /\ pre.state = SLEEPING
    /\ pre.last_refresh = SEQ_FULL
    /\ err = "RuntimeError"
    /\ state = SLEEPING

-----------------------------------------------------------------------------
(* The last command of the call's trace. *)
LastSent == trace[Len(trace)]

(* The call ended with the power-off sequence followed by DEEP_SLEEP(mode). *)
EndsAsleep(mode) ==
    /\ Len(trace) >= 3
    /\ LastSent = [cmd |-> CMD_DEEP_SLEEP, data |-> <<mode>>]
    /\ trace[Len(trace) - 1].cmd = CMD_ACTIVATE
    /\ trace[Len(trace) - 2] = [cmd |-> CMD_UPDATE_CTRL2, data |-> <<SEQ_POWER_OFF>>]

(* C14 (amended): a sleep(retain_ram) that is called while the driver is   *)
(* not sleeping and returns leaves it SLEEPING, its last command           *)
(* DEEP_SLEEP(0x03) for retain_ram=false and DEEP_SLEEP(0x01) for          *)
(* retain_ram=true, right after the power-off activation; has_basemap is   *)
(* false after retain_ram=false and unchanged after retain_ram=true.  A    *)
(* sleep called while the driver is already sleeping sends nothing and     *)
(* changes nothing, has_basemap included.                                  *)
C14_SleepDiscardsBasemap ==
    (call # Idle /\ call.op = "sleep") =>
        /\ (pre.state # SLEEPING /\ err = "none") =>
              /\ state = SLEEPING
              /\ EndsAsleep(IF call.retain_ram THEN SLEEP_MODE_1 ELSE SLEEP_MODE_2)
              /\ has_basemap = (call.retain_ram /\ pre.has_basemap)
        /\ pre.state = SLEEPING =>
              /\ trace = <<>>
              /\ err = "none"
              /\ state = SLEEPING
              /\ has_basemap = pre.has_basemap
        /\ call.retain_ram => has_basemap = pre.has_basemap

(* sleep(retain_ram=false) has returned from a driver that was awake and   *)
(* had a basemap.                                                          *)
C14_Witness ==
    /\ call # Idle
    /\ call.op = "sleep"
    /\ ~call.retain_ram
    /\ err = "none"
    /\ pre.state = READY
    /\ pre.has_basemap
    /\ ~has_basemap

(* C14 as stated: after any sleep(retain_ram=false) that returns, the      *)
(* driver is SLEEPING with DEEP_SLEEP(0x03) as its last command and        *)
(* has_basemap is false, whatever state it was called in.                  *)
C14_AsStated ==
    (call # Idle /\ call.op = "sleep" /\ ~call.retain_ram /\ err = "none") =>
        /\ state = SLEEPING
        /\ ~has_basemap
        /\ EndsAsleep(SLEEP_MODE_2)

-----------------------------------------------------------------------------
(* The controller after the first n entries of the call's trace. *)
RECURSIVE PanelAfter(_, _, _)
PanelAfter(p, tr, n) ==
    IF n = 0 THEN p
    ELSE PanelApply(PanelAfter(p, tr, n - 1), tr[n].cmd, tr[n].data)

(* The sequences that refresh the panel, and where the call activated one. *)
RefreshModes == {SEQ_FULL, SEQ_PARTIAL, SEQ_CUSTOM_LUT}

RefreshActivations == UNION {Activations(mode) : mode \in RefreshModes}

(* C11: once set_invert(invert_bw, invert_red) has returned, the next      *)
(* refresh is activated with the first byte of UPDATE_CTRL1 in the         *)
(* controller still holding that inversion (0x80 for red, 0x08 for BW):    *)
(* no reset and no later UPDATE_CTRL1 write has replaced it, whatever      *)
(* state the driver was in.                                                *)
C11_InversionSurvives ==
    (call # Idle /\ pre.inversion >= 0) =>
        \A i \in RefreshActivations :
            PanelAfter(pre.panel, trace, i).ctrl1 = pre.inversion

-----------------------------------------------------------------------------
(* C12: after Canvas.full_refresh() has returned, for a buffer of either   *)
(* depth, needs_full_refresh() is false and partial_count is 0.            *)
C12_FullRefreshEstablishesBasemap ==
    (call # Idle /\ call.op = "full_refresh" /\ err = "none") =>
        /\ ~needs_full_refresh([is_initial |-> is_initial, has_basemap |-> has_basemap,
                                partial_threshold |-> partial_threshold,
                                partial_count |-> partial_count])
        /\ partial_count = 0

(* C13: Canvas.full_refresh() always leaves the panel in deep sleep, for a *)
(* buffer of either depth: when it has returned the state is SLEEPING and  *)
(* the last command sent is DEEP_SLEEP.                                    *)
C13_FullRefreshSleeps ==
    (call # Idle /\ call.op = "full_refresh" /\ err = "none") =>
        /\ state = SLEEPING
        /\ trace # <<>>
        /\ trace[Len(trace)].cmd = CMD_DEEP_SLEEP

-----------------------------------------------------------------------------
(* C15: every ACTIVATE immediately follows the UPDATE_CTRL2 write that     *)
(* selects its sequence; when the sequence is a refresh (0xF7, 0xC7, 0xFC) *)
(* the RAM data (a bulk BW write or the BW auto-fill) was written earlier  *)
(* in the same call, at a moment when the RAM window and both counters had *)
(* been programmed since the last reset.                                   *)
C15_ActivateConfigured ==
    call # Idle =>
        \A i \in Sent(CMD_ACTIVATE) :
            /\ i > 1
            /\ trace[i - 1].cmd = CMD_UPDATE_CTRL2
            /\ \E mode \in RefreshModes \cup {SEQ_POWER_ON, SEQ_POWER_OFF, SEQ_LOAD_TEMP} :
                  trace[i - 1].data = <<mode>>
            /\ i \in RefreshActivations =>
                  \E j \in 1..(i - 2) :
                     /\ trace[j].cmd \in {CMD_RAM_BLACK, CMD_AUTO_WRITE_BW}
                     /\ {CMD_RAM_X, CMD_RAM_Y, CMD_RAM_X_CNT, CMD_RAM_Y_CNT}
                           \subseteq PanelAfter(pre.panel, trace, j - 1).programmed

(* A display that found the driver READY refreshed the panel and went to   *)
(* sleep: two ACTIVATEs, the refresh with the window an earlier call had   *)
(* programmed.                                                             *)
C15_Witness ==
    /\ call # Idle
    /\ call.op = "display"
    /\ err = "none"
    /\ RefreshActivations # {}
    /\ Cardinality(Sent(CMD_ACTIVATE)) = 2
    /\ Sent(CMD_RAM_X) = {}

-----------------------------------------------------------------------------
(* C16: at every bulk RAM write (0x24, 0x26) the controller has received   *)
(* RAM_X, RAM_Y, RAM_X_CNT and RAM_Y_CNT since its last hardware reset or  *)
(* SW_RESET, and the window in force is the area the payload is for: the   *)
(* full frame in display, clear, init and display_lut / display_gray, and  *)
(* in display_regions the rectangle of the region the write belongs to     *)
(* (the k-th RED write and the k-th BW write belong to the k-th region of  *)
(* the list).                                                              *)
C16_WindowBeforeRamWrite ==
    call # Idle =>
        \A i \in Sent(CMD_RAM_BLACK) \cup Sent(CMD_RAM_RED) :
            LET p == PanelAfter(pre.panel, trace, i - 1)
                k == Cardinality({j \in Sent(trace[i].cmd) : j <= i})
                r == call.regions[k]
            IN  /\ {CMD_RAM_X, CMD_RAM_Y, CMD_RAM_X_CNT, CMD_RAM_Y_CNT}
                      \subseteq p.programmed
                /\ IF IsRegionCall
                   THEN /\ k <= Len(call.regions)
                        /\ p.xs = r.x \div 8
                        /\ p.xe = (r.x + r.w - 1) \div 8
                        /\ p.ys = r.y
                        /\ p.ye = r.y + r.h - 1
                   ELSE /\ p.xs = 0
                        /\ p.xe = WIDTH \div 8 - 1
                        /\ p.ys = 0
                        /\ p.ye = HEIGHT - 1

(* A display_regions call with three regions has written each of them to   *)
(* RED RAM and to BW RAM after a refresh of another call had moved the     *)
(* window.                                                                 *)
C16_Witness ==
    /\ call # Idle
    /\ call.op = "display_regions"
    /\ err = "none"
    /\ Len(call.regions) = 3
    /\ Cardinality(Sent(CMD_RAM_BLACK)) = 3
    /\ Cardinality(Sent(CMD_RAM_RED)) = 3
    /\ pre.state = READY

-----------------------------------------------------------------------------
(* C17: prev_frame is written only after a refresh activation has          *)
(* completed: a display, display_region(s), clear or fast_clear call in    *)
(* which no refresh completed (a BUSY timeout, or an argument rejected     *)
(* part-way) leaves prev_frame with the contents it had before the call.   *)
C17_PrevOnlyAfterRefresh ==
    (/\ call # Idle
     /\ call.op \in {"display", "display_region", "display_regions", "clear", "fast_clear"}
     /\ refreshed = <<>>) =>
        prev_buffer = pre.prev_buffer

-----------------------------------------------------------------------------
(* C18: prev_frame, when the driver keeps one, has exactly BUFFER_SIZE     *)
(* bytes (4736 on the panel of the source) in every reachable state, also  *)
(* after display_region(s) with 8-aligned regions of any position, size    *)
(* and data length.                                                        *)
C18_PrevFrameSize ==
    prev_buffer # <<>> => Len(prev_buffer) = BUFFER_SIZE

-----------------------------------------------------------------------------
(* C19: init(clear=true) on an UNINITIALIZED driver (a fresh one, or one   *)
(* woken from sleep) that returns has sent SW_RESET as its first command   *)
(* and DEEP_SLEEP(0x01) as its last, has activated exactly one refresh,    *)
(* ACTIVATE right after UPDATE_CTRL2(0xF7), and leaves the state SLEEPING, *)
(* has_basemap true, partial_count 0 and prev_frame (when kept) all 0xFF.  *)
C19_InitClear ==
    (/\ call # Idle
     /\ call.op = "init"
     /\ call.clear
     /\ pre.state = UNINITIALIZED
     /\ err = "none") =>
        /\ trace[1] = [cmd |-> CMD_SW_RESET, data |-> <<>>]
        /\ trace[Len(trace)] = [cmd |-> CMD_DEEP_SLEEP, data |-> <<SLEEP_MODE_1>>]
        /\ Cardinality(RefreshActivations) = 1
        /\ RefreshActivations = Activations(SEQ_FULL)
        /\ \A i \in Sent(CMD_UPDATE_CTRL2) :
              trace[i].data = <<SEQ_FULL>> => i + 1 \in Activations(SEQ_FULL)
        /\ refreshed = <<SEQ_FULL>>
        /\ state = SLEEPING
        /\ has_basemap
        /\ partial_count = 0
        /\ prev_buffer \in {<<>>, Fill(255, BUFFER_SIZE)}

(* init(clear=true) has returned on a fresh driver that keeps a            *)
(* prev_frame.                                                             *)
C19_Witness ==
    /\ call # Idle
    /\ call.op = "init"
    /\ call.clear
    /\ err = "none"
    /\ pre.state = UNINITIALIZED
    /\ pre.is_initial
    /\ ~pre.has_basemap
    /\ pre.prev_buffer = Fill(0, BUFFER_SIZE)
    /\ prev_buffer = Fill(255, BUFFER_SIZE)
    /\ state = SLEEPING

-----------------------------------------------------------------------------
(* C20: while a refresh is in progress, from its ACTIVATE until BUSY is    *)
(* released, DriverState.state is UPDATING: every refresh takes the state  *)
(* READY -> UPDATING -> READY.                                             *)
C20_UpdatingWhileBusy ==
    call # Idle => \A i \in 1..Len(during) : during[i] = UPDATING

-----------------------------------------------------------------------------
(* A call on the buffer: b is the buffer the method leaves.  The call      *)
(* record keeps the buffer as it was and whether a write went astray.      *)
BufferCall(b, c) ==
    /\ call = Idle
    /\ fb' = [b EXCEPT !.err = "none", !.stray = FALSE]
    /\ err' = b.err
    /\ call' = [op |-> c.op, args |-> c, before |-> fb, stray |-> b.stray]
    /\ UNCHANGED <<state, has_basemap, partial_count, partial_threshold,
                   in_partial_mode, is_initial, prev_buffer, panel, trace,
                   refreshed, during, pre, last_refresh, partials_since_full,
                   has_miso, depth, inversion, text>>

(* the rotation setter, on a frame of one color *)
SetRotation(value) ==
    /\ call = Idle
    /\ Blank(fb)
    /\ BufferCall([fb EXCEPT !.rotation = value % 360],
                  [op |-> "rotation", value |-> value])

(* clear and invert, over a frame of one color (any color, so that every  *)
(* pixel of the frame changes)                                             *)
CallBufferClear(color) ==
    /\ Blank(fb)
    /\ BufferCall(buffer_clear(fb, color), [op |-> "buffer_clear", color |-> color])

CallInvert ==
    /\ Blank(fb)
    /\ BufferCall(invert(fb), [op |-> "invert"])

(* The drawing calls, on a frame of one color: pixel with the arguments    *)
(* the specification offers, the others with every argument of the sets    *)
(* above.                                                                  *)
CallPixel(xs, ys, colors) ==
    /\ call = Idle
    /\ Blank(fb)
    /\ \E x \in xs, y \in ys, color \in colors :
          BufferCall(pixel(fb, x, y, color),
                     [op |-> "pixel", x |-> x, y |-> y, color |-> color])

CallHline ==
    /\ call = Idle
    /\ Blank(fb)
    /\ \E x \in Coords(width(fb)), y \in Coords(height(fb)),
          length \in Lengths(width(fb)), color \in ShapeColors :
          BufferCall(hline(fb, x, y, length, color),
                     [op |-> "hline", x |-> x, y |-> y, length |-> length,
                      color |-> color])

CallVline ==
    /\ call = Idle
    /\ Blank(fb)
    /\ \E x \in Coords(width(fb)), y \in Coords(height(fb)),
          length \in Lengths(height(fb)), color \in ShapeColors :
          BufferCall(vline(fb, x, y, length, color),
                     [op |-> "vline", x |-> x, y |-> y, length |-> length,
                      color |-> color])

CallFillRect ==
    /\ call = Idle
    /\ Blank(fb)
    /\ \E x \in Coords(width(fb)), y \in Coords(height(fb)),
          w \in Sizes(width(fb)), h \in Sizes(height(fb)), color \in ShapeColors :
          BufferCall(fill_rect(fb, x, y, w, h, color),
                     [op |-> "fill_rect", x |-> x, y |-> y, w |-> w, h |-> h,
                      color |-> color])

CallRect ==
    /\ call = Idle
    /\ Blank(fb)
    /\ \E x \in Coords(width(fb)), y \in Coords(height(fb)),
          w \in Sizes(width(fb)), h \in Sizes(height(fb)), color \in ShapeColors :
          BufferCall(rect(fb, x, y, w, h, color),
                     [op |-> "rect", x |-> x, y |-> y, w |-> w, h |-> h,
                      color |-> color])

CallLine ==
    /\ call = Idle
    /\ Blank(fb)
    /\ \E x0 \in Coords(width(fb)), y0 \in Coords(height(fb)),
          x1 \in Ends(width(fb)), y1 \in Ends(height(fb)), color \in ShapeColors :
          BufferCall(line(fb, x0, y0, x1, y1, color),
                     [op |-> "line", x0 |-> x0, y0 |-> y0, x1 |-> x1, y1 |-> y1,
                      color |-> color])

CallBlit ==
    /\ call = Idle
    /\ Blank(fb)
    /\ \E bitmap \in Bitmaps, x \in Coords(width(fb)), y \in Coords(height(fb)),
          color \in ShapeColors :
          BufferCall(blit(fb, bitmap.data, x, y, bitmap.w, bitmap.h, color),
                     [op |-> "blit", bitmap |-> bitmap, x |-> x, y |-> y,
                      color |-> color])

CallToMono ==
    BufferCall(fb, [op |-> "to_mono", result |-> to_mono(fb)])

CallToPlanes ==
    LET planes == to_planes(fb)
    IN  BufferCall([fb EXCEPT !.err = planes.err],
                   [op |-> "to_planes", result |-> planes])

(* The call record keeps the rotation and what update_region handed to    *)
(* display_region (<<>> when it raised before the hand-over).              *)
CallUpdateRegion(x, y, w, h, f) ==
    /\ partial_count < MaxPartialCount
    /\ End(update_region(Begin(f), fb, x, y, w, h),
           [op |-> "update_region", x |-> x, y |-> y, w |-> w, h |-> h,
            region |-> LET p == transform_region(fb, x, y, w, h)
                           region == get_region(fb, p[1], p[2], p[3], p[4])
                       IN  IF fb.depth # 1 \/ region.err # "none" THEN <<>>
                           ELSE [data |-> region.data, x |-> p[1], y |-> p[2],
                                 w |-> p[3], h |-> p[4]] ])

(* A FrameBuffer of either depth, as Canvas.__init__ builds it; the       *)
(* driver, which these calls never reach, is built without diff buffer.   *)
InitBuffer ==
    /\ InitDriver
    /\ prev_buffer = <<>>
    /\ has_miso = FALSE
    /\ depth \in {1, 2}
    /\ fb = FrameBuffer(depth, 90)
    /\ text = TextRenderer(MaxCache)

(* The buffer alone: the driver is not called. *)
NextBuffer ==
    \/ \E r \in Rotations : SetRotation(r)
    \/ \E c \in Colors : CallBufferClear(c)
    \/ CallInvert
    \/ CallPixel(Coords(width(fb)), Coords(height(fb)), Colors)
    \/ CallHline
    \/ CallVline
    \/ CallFillRect
    \/ CallRect
    \/ CallLine
    \/ CallBlit
    \/ CallToMono
    \/ CallToPlanes
    \/ Return

SpecBuffer == InitBuffer /\ [][NextBuffer]_vars

-----------------------------------------------------------------------------
(* The logical pixels a drawing call asks for, from the arguments in the   *)
(* call record: the pixel, the run of `length` pixels, the w x h           *)
(* rectangle or its border, the bounding box of the line's end points,     *)
(* the set bits of the bitmap.                                             *)
RequestedShape ==
    LET a == call.args
        Box(x, y, w, h) == (x..(x + w - 1)) \X (y..(y + h - 1))
        lo(u, v) == IF u < v THEN u ELSE v
        hi(u, v) == IF u < v THEN v ELSE u
    IN  CASE call.op = "pixel" -> {<<a.x, a.y>>}
          [] call.op = "hline" -> Box(a.x, a.y, a.length, 1)
          [] call.op = "vline" -> Box(a.x, a.y, 1, a.length)
          [] call.op = "fill_rect" -> Box(a.x, a.y, a.w, a.h)
          [] call.op = "rect" ->
                {p \in Box(a.x, a.y, a.w, a.h) :
                    \/ p[1] \in {a.x, a.x + a.w - 1}
                    \/ p[2] \in {a.y, a.y + a.h - 1}}
          [] call.op = "line" ->
                (lo(a.x0, a.x1)..hi(a.x0, a.x1)) \X (lo(a.y0, a.y1)..hi(a.y0, a.y1))
          [] call.op = "blit" ->
                {p \in Box(a.x, a.y, a.bitmap.w, a.bitmap.h) :
                    BitAnd(a.bitmap.data[(p[2] - a.y) * ((a.bitmap.w + 7) \div 8)
                                         + ((p[1] - a.x) \div 8) + 1],
                           128 \div (2 ^ ((p[1] - a.x) % 8))) # 0}

DrawingOps == {"pixel", "hline", "vline", "fill_rect", "rect", "line", "blit"}

(* The logical viewport of the buffer *)
Viewport == (0..(width(fb) - 1)) \X (0..(height(fb) - 1))

(* C23: pixel, hline, vline, fill_rect, rect, line and blit, with any      *)
(* arguments at any rotation and depth, write no byte index outside the    *)
(* buffer (no IndexError, no negative index, same length) and leave every  *)
(* pixel outside the requested shape as it was.                            *)
C23_DrawingStaysInside ==
    call.op \in DrawingOps =>
        /\ ~call.stray
        /\ err = "none"
        /\ Len(fb.buffer) = Len(call.before.buffer)
        /\ \A p \in Viewport \ RequestedShape :
              get_pixel(fb, p[1], p[2]) = get_pixel(call.before, p[1], p[2])

(* C24: clear(c) makes get_pixel return the effective color of c at every  *)
(* pixel of the viewport, and pixel(x, y, c) inside the viewport makes     *)
(* get_pixel(x, y) return it, for both depths, all four colors, inverted   *)
(* or not.                                                                 *)
C24_ReadBackEffectiveColor ==
    /\ call.op = "buffer_clear" =>
          \A p \in Viewport :
              get_pixel(fb, p[1], p[2]) = _effective_color(call.before, call.args.color)
    /\ (call.op = "pixel" /\ <<call.args.x, call.args.y>> \in Viewport) =>
          get_pixel(fb, call.args.x, call.args.y)
              = _effective_color(call.before, call.args.color)

(* C25: to_mono() and to_planes() of a 2-bit buffer are 1-bit frames of    *)
(* the same layout: read as a 1-bit buffer, the mono frame is white where  *)
(* the pixel is >= 2, the black plane where (pixel >> 1) & 1, the red      *)
(* plane where pixel & 1; to_mono() of a 1-bit buffer is its bytes.        *)
C25_Conversions ==
    LET As1Bit(frame) == [fb EXCEPT !.depth = 1, !.buffer = frame]
        Bit(frame, p) == get_pixel(As1Bit(frame), p[1], p[2]) = WHITE
        Pix(p) == get_pixel(fb, p[1], p[2])
    IN  /\ (call.op = "to_mono" /\ fb.depth = 1) => call.args.result = fb.buffer
        /\ (call.op = "to_mono" /\ fb.depth = 2) =>
              /\ Len(call.args.result) = (WIDTH \div 8) * HEIGHT
              /\ \A p \in Viewport : Bit(call.args.result, p) <=> (Pix(p) >= 2)
        /\ (call.op = "to_planes" /\ fb.depth = 2) =>
              /\ err = "none"
              /\ Len(call.args.result.black) = (WIDTH \div 8) * HEIGHT
              /\ Len(call.args.result.red) = (WIDTH \div 8) * HEIGHT
              /\ \A p \in Viewport :
                    /\ Bit(call.args.result.black, p) <=> ((Pix(p) \div 2) % 2 = 1)
                    /\ Bit(call.args.result.red, p) <=> (Pix(p) % 2 = 1)

(* to_planes() of a 2-bit frame that holds dark and light gray pixels *)
C25_Witness ==
    /\ call.op = "to_planes"
    /\ fb.depth = 2
    /\ \E p, q \in Viewport :
          /\ get_pixel(fb, p[1], p[2]) = DARK_GRAY
          /\ get_pixel(fb, q[1], q[2]) = LIGHT_GRAY

(* C26: at every rotation the transform takes the pixels of the logical    *)
(* viewport to distinct pixels inside the physical WIDTH x HEIGHT.         *)
C26_TransformInjective ==
    call.op \in {"rotation", "pixel"} =>
        /\ \A p \in Viewport :
              /\ _transform(fb, p[1], p[2])[1] \in 0..(WIDTH - 1)
              /\ _transform(fb, p[1], p[2])[2] \in 0..(HEIGHT - 1)
        /\ \A p, q \in Viewport :
              _transform(fb, p[1], p[2]) = _transform(fb, q[1], q[2]) => p = q

(* a pixel set in the far corner of the viewport at rotation 270 *)
C26_Witness ==
    /\ call.op = "pixel"
    /\ fb.rotation = 270
    /\ call.args.x = width(fb) - 1
    /\ call.args.y = height(fb) - 1
    /\ fb.buffer # call.before.buffer

-----------------------------------------------------------------------------
(* Canvas.update_region over a buffer of any rotation and either depth.    *)
(* The rectangles lie inside the logical viewport; their corners and       *)
(* sizes are taken on and off the multiples of 8.  One region is updated   *)
(* after each init, over the frame init has cleared.                       *)
UpdateRects ==
    {r \in {0, 1, 8} \X {0, 1, 8} \X {1, 2, 8, 16} \X {1, 2, 8, 16} :
        r[1] + r[3] <= width(fb) /\ r[2] + r[4] <= height(fb)}

InitUpdate ==
    /\ InitDriver
    /\ has_miso = FALSE
    /\ depth \in {1, 2}
    /\ fb \in {FrameBuffer(depth, r) : r \in Rotations}
    /\ text = TextRenderer(MaxCache)

NextUpdate ==
    \/ CallInit(TRUE, 0)
    \/ \E r \in Rotations : SetRotation(r)
    \/ \E c \in {BLACK, WHITE} : CallBufferClear(c)
    \/ CallPixel({1, width(fb) - 1}, {0, height(fb) - 2}, {BLACK, WHITE})
    \/ /\ partial_count = 0
       /\ \E r \in UpdateRects : CallUpdateRegion(r[1], r[2], r[3], r[4], 0)
    \/ Return

SpecUpdate == InitUpdate /\ [][NextUpdate]_vars

(* C21: update_region on a 1-bit canvas, at any rotation, raises           *)
(* ValueError when the logical x or the logical w is not a multiple of 8.  *)
C21_MisalignedRaises ==
    (/\ call.op = "update_region"
     /\ fb.depth = 1
     /\ (call.x % 8 # 0 \/ call.w % 8 # 0))
        => err = "ValueError"

(* C22: for a rectangle inside the logical viewport, transform_region      *)
(* gives the physical rectangle that is the image of its pixels under the  *)
(* transform, and an update_region that goes through programs that         *)
(* rectangle as the RAM window and writes, for each of its pixels, the     *)
(* bit the buffer holds for it.                                            *)
C22_RegionIsImage ==
    (call.op = "update_region" /\ fb.depth = 1) =>
        LET R == (call.x..(call.x + call.w - 1)) \X (call.y..(call.y + call.h - 1))
            Img == {_transform(fb, q[1], q[2]) : q \in R}
            t == transform_region(fb, call.x, call.y, call.w, call.h)
            y_end == t[2] + t[4] - 1
            BitOf(data, q) ==
                LET p == _transform(fb, q[1], q[2])
                    k == (p[2] - t[2]) * t[3] + (p[1] - t[1])
                IN  BitAnd(data[(k \div 8) + 1], 2 ^ (7 - (k % 8))) # 0
        IN  /\ Img = (t[1]..(t[1] + t[3] - 1)) \X (t[2]..(t[2] + t[4] - 1))
            /\ err = "none" =>
                  /\ \E i \in Sent(CMD_RAM_X) :
                        trace[i].data = <<t[1] \div 8, (t[1] + t[3] - 1) \div 8>>
                  /\ \E i \in Sent(CMD_RAM_Y) :
                        trace[i].data = <<t[2] % 256, t[2] \div 256,
                                          y_end % 256, y_end \div 256>>
                  /\ \E i \in Sent(CMD_RAM_BLACK) :
                        /\ Len(trace[i].data) = (t[3] * t[4]) \div 8
                        /\ \A q \in R :
                              BitOf(trace[i].data, q)
                                  <=> (get_pixel(fb, q[1], q[2]) = WHITE)

(* an update at rotation 90 that went through, off the physical origin,    *)
(* with a frame that is not of one color inside the rectangle              *)
C22_Witness ==
    /\ call.op = "update_region"
    /\ fb.rotation = 90
    /\ err = "none"
    /\ call.region # <<>>
    /\ call.region.x = WIDTH - call.h
    /\ call.region.x # 0
    /\ \E v \in Range(call.region.data) : v \notin {0, 255}

-----------------------------------------------------------------------------
(* The calls on the text renderer.  The call record keeps the renderer as  *)
(* it was and the glyphs the lookups of the call returned.                 *)
TextCall(t, c) ==
    /\ call = Idle
    /\ text' = [t EXCEPT !.err = "none", !.reads = 0]
    /\ err' = t.err
    /\ call' = [op |-> c.op, args |-> c, before |-> text, reads |-> t.reads]
    /\ UNCHANGED <<state, has_basemap, partial_count, partial_threshold,
                   in_partial_mode, is_initial, prev_buffer, panel, trace,
                   refreshed, during, pre, last_refresh, partials_since_full,
                   has_miso, depth, inversion, fb>>

CallLoadFont(path) ==
    TextCall(load_font(text, path), [op |-> "load_font", path |-> path])

CallAddFont(path, optional) ==
    /\ Len(text.fonts) < MaxFonts
    /\ TextCall(add_font(text, path, optional),
                [op |-> "add_font", path |-> path, optional |-> optional])

CallPreloadGlyphs(chars) ==
    LET r == preload_glyphs(text, chars)
    IN  TextCall(r.t, [op |-> "preload_glyphs", chars |-> chars, glyphs |-> r.res])

CallMeasureWidth(chars, scale) ==
    LET r == measure_width(text, chars, scale)
    IN  TextCall(r.t, [op |-> "measure_width", chars |-> chars, scale |-> scale,
                       glyphs |-> r.res, result |-> r.width])

(* A renderer of either capacity, no font loaded yet. *)
InitText ==
    /\ InitDriver
    /\ has_miso = FALSE
    /\ depth = 1
    /\ fb = FrameBuffer(depth, 90)
    /\ text \in {TextRenderer(MaxCache - 2), TextRenderer(MaxCache)}

NextText ==
    \/ \E path \in FontPaths : CallLoadFont(path)
    \/ \E path \in FontPaths, optional \in BOOLEAN : CallAddFont(path, optional)
    \/ \E chars \in Strings : CallPreloadGlyphs(chars)
    \/ \E chars \in Strings, scale \in {1, 2} : CallMeasureWidth(chars, scale)
    \/ Return

SpecText == InitText /\ [][NextText]_vars

(* The bitmap bytes the glyph cache holds *)
RECURSIVE CachedBytes(_)
CachedBytes(cache) ==
    IF cache = <<>> THEN 0 ELSE Len(Head(cache).res.data) + CachedBytes(Tail(cache))

(* C27: whatever glyphs are looked up, the bitmap bytes held in the glyph   *)
(* cache never exceed the capacity the renderer was built with.            *)
C27_CacheWithinCapacity ==
    /\ text.cache_size = CachedBytes(text.cache)
    /\ CachedBytes(text.cache) <= text.cache_max

(* C28: every glyph lookup of a call returns the glyph of the first font   *)
(* of the font stack that has the code point (None when no font has it),   *)
(* whatever the cache holds and whatever the scale.                        *)
C28_FirstFontWins ==
    (call.op \in {"preload_glyphs", "measure_width"}
        /\ ~(call.op = "measure_width" /\ (text.fonts = <<>> \/ call.args.chars = <<>>)))
    =>  /\ Len(call.args.glyphs) = Len(call.args.chars)
        /\ \A k \in 1..Len(call.args.chars) :
              LET cp == call.args.chars[k]
                  has == {i \in 1..Len(text.fonts) : cp \in DOMAIN text.fonts[i].index}
                  first == CHOOSE i \in has : \A j \in has : i <= j
                  f == text.fonts[first]
              IN  IF has = {} THEN call.args.glyphs[k] = <<>>
                  ELSE call.args.glyphs[k] =
                          [data |-> read(f, f.index[cp].off),
                           w |-> IF f.prop THEN f.index[cp].w ELSE f.max_w,
                           h |-> f.height, bpr |-> f.bpr]

(* a lookup answered from a warm cache, at scale 2, of a code point that   *)
(* both fonts of the stack have, after a load_font replaced another font   *)
C28_Witness ==
    /\ call.op = "measure_width"
    /\ call.args.scale = 2
    /\ Len(text.fonts) = 2
    /\ \E k \in 1..Len(call.args.chars) :
          /\ call.args.chars[k] \in DOMAIN text.fonts[1].index
          /\ call.args.chars[k] \in DOMAIN text.fonts[2].index
          /\ \E i \in 1..Len(call.before.cache) :
                call.before.cache[i].cp = call.args.chars[k]


(* C29: read_temperature and check_temperature on a transport without MISO *)
(* raise the unsupported error before anything is sent: no command, no     *)
(* data, no hardware reset, and the driver state, the previous frame and   *)
(* the panel are as before the call, whatever state the driver was in.     *)
C29_UnsupportedEagerly ==
    (call.op \in {"read_temperature", "check_temperature"} /\ ~has_miso)
    =>  /\ err = "RuntimeError"
        /\ trace = <<>>
        /\ refreshed = <<>>
        /\ Snapshot = pre

(* the call found the driver asleep, or never initialised *)
C29_Witness ==
    /\ call.op \in {"read_temperature", "check_temperature"}
    /\ ~has_miso
    /\ err = "RuntimeError"
    /\ pre.state = SLEEPING


-----------------------------------------------------------------------------
(* The driver operations step by step, with the BUSY line read where the   *)
(* code reads it: in the loop of wait_ready and before each command of     *)
(* write_command.  The order of the transfers and waits of an operation is *)
(* that of its operator; the operation runs from the fields as they are    *)
(* and stores them when it ends.  Time is counted in ticks: each turn of   *)
(* the polling loop sees the clock 1..MaxTick ticks later, and every       *)
(* timeout of the source (0.5 s to 10 s) is TimeoutTicks.  The operation   *)
(* followed step by step is the last of the run; the calls before it are   *)
(* taken whole.                                                            *)
Operations ==
    {[op |-> "init", clear |-> c] : c \in BOOLEAN}
    \cup {[op |-> "display", data |-> White, full |-> f, force_full |-> FALSE,
           stay_awake |-> sa] : f \in BOOLEAN, sa \in BOOLEAN}
    \cup {[op |-> "display_region", regions |-> <<RegA(255)>>],
          [op |-> "display_gray", black |-> White, red |-> White],
          [op |-> "sleep", retain_ram |-> TRUE], [op |-> "wake"],
          [op |-> "fast_clear", color |-> 255],
          [op |-> "set_invert", invert_bw |-> TRUE, invert_red |-> FALSE],
          [op |-> "set_gate_start"], [op |-> "read_temperature"],
          [op |-> "read_status"]}

(* The operation o run as a whole, BUSY staying high at wait f or before   *)
(* transfer b (0: at none).                                                *)
Run(o, f, b) ==
    LET m == [Begin(f) EXCEPT !.busy_at = b]
    IN  CASE o.op = "init" -> init(m, o.clear)
          [] o.op = "display" -> display(m, o.data, o.full, o.force_full, o.stay_awake)
          [] o.op = "display_region" ->
                LET r == o.regions[1] IN display_region(m, r.data, r.x, r.y, r.w, r.h)
          [] o.op = "display_gray" -> display_gray(m, o.black, o.red)
          [] o.op = "sleep" -> sleep(m, o.retain_ram)
          [] o.op = "wake" -> wake(m)
          [] o.op = "fast_clear" -> fast_clear(m, o.color)
          [] o.op = "set_invert" -> set_invert(m, o.invert_bw, o.invert_red)
          [] o.op = "set_gate_start" -> set_gate_start(m, 257)
          [] o.op = "read_temperature" -> read_temperature(m)
          [] o.op = "read_status" -> read_status(m)

(* What the operation o does when BUSY always goes low: its transfers in   *)
(* order (checked: write_command reads BUSY before the transfer; a         *)
(* hardware reset and the transfer of read_data, which follows its own     *)
(* test of BUSY, do not), the number of transfers before each of its calls *)
(* of wait_ready (as many as in the run that fails at that wait) and the   *)
(* refreshes it completes.                                                 *)
PlanOf(runs) ==
    [transfers |-> runs[<<0, 0>>].trace,
     checked |-> [i \in 1..Len(runs[<<0, 0>>].trace) |-> runs[<<0, i>>].err = "Timeout"],
     wait_at |-> [k \in 1..runs[<<0, 0>>].waits |-> Len(runs[<<k, 0>>].trace)],
     refreshed |-> runs[<<0, 0>>].refreshed]

Plan(o) ==
    PlanOf([p \in ({0} \X (0..MaxItems)) \cup ((0..MaxItems) \X {0}) |->
                Run(o, p[1], p[2])])

(* A polling loop that never gives up. *)
poll_forever(elapsed) == FALSE

(* wait_ready: "if elapsed > timeout: raise" *)
timed_out(elapsed) == elapsed > TimeoutTicks

(* A step of the running operation: the call record moves on and sent is  *)
(* what the step puts on the wire (<<>> for nothing).                      *)
Running(c, sent) ==
    /\ call' = c
    /\ trace' = trace \o sent
    /\ UNCHANGED <<state, has_basemap, partial_count, partial_threshold,
                   in_partial_mode, is_initial, prev_buffer, panel,
                   refreshed, during, pre, last_refresh, partials_since_full,
                   has_miso, depth, inversion, fb, text, err>>

(* The caller starts an operation: nothing is on the wire yet.  The call   *)
(* record holds the plan of the operation, the waits it has passed, where   *)
(* it is                                                                   *)
(* (pc: between statements, in the loop of a wait_ready of the driver, in  *)
(* the loop of the wait_ready of write_command), the time spent in that    *)
(* loop and whether wait_ready has raised.                                 *)
StartOperation(o) ==
    /\ call = Idle
    /\ (o.op \in {"display", "display_region"}) => partial_count < MaxPartialCount
    /\ call' = [op |-> "running", o |-> o, plan |-> Plan(o),
                waits |-> 0, pc |-> "next", elapsed |-> 0, raised |-> FALSE]
    /\ trace' = <<>>
    /\ refreshed' = <<>>
    /\ during' = <<>>
    /\ err' = "none"
    /\ pre' = Snapshot
    /\ UNCHANGED <<state, has_basemap, partial_count, partial_threshold,
                   in_partial_mode, is_initial, prev_buffer, panel,
                   last_refresh, partials_since_full, has_miso, depth,
                   inversion, fb, text>>

(* the next statement of the running operation is a call of wait_ready,    *)
(* is a transfer, or there is none                                         *)
NextIsWait ==
    /\ call.waits < Len(call.plan.wait_at)
    /\ call.plan.wait_at[call.waits + 1] = Len(trace)

NextIsTransfer ==
    /\ ~NextIsWait
    /\ Len(trace) < Len(call.plan.transfers)

AtEnd ==
    /\ ~NextIsWait
    /\ Len(trace) = Len(call.plan.transfers)

(* wait_ready is entered: start = time.monotonic() *)
EnterWait ==
    /\ call.op = "running" /\ call.pc = "next"
    /\ NextIsWait
    /\ Running([call EXCEPT !.pc = "wait", !.elapsed = 0], <<>>)

(* The next transfer; write_command calls wait_ready when it reads BUSY    *)
(* high.                                                                   *)
Transfer ==
    /\ call.op = "running" /\ call.pc = "next"
    /\ NextIsTransfer
    /\ \E busy \in BOOLEAN :
          IF busy /\ call.plan.checked[Len(trace) + 1]
          THEN Running([call EXCEPT !.pc = "busy", !.elapsed = 0], <<>>)
          ELSE Running(call, <<call.plan.transfers[Len(trace) + 1]>>)

(* One turn of "while self.busy.value": BUSY is low and the loop ends, or  *)
(* it is high and the time since the start is compared with the timeout.   *)
Poll ==
    /\ call.op = "running" /\ call.pc \in {"wait", "busy"} /\ ~call.raised
    /\ \E busy \in BOOLEAN, dt \in 1..MaxTick :
          IF ~busy
          THEN Running([call EXCEPT !.pc = "next", !.elapsed = 0,
                                    !.waits = IF call.pc = "wait" THEN @ + 1 ELSE @],
                       IF call.pc = "busy"
                       THEN <<call.plan.transfers[Len(trace) + 1]>> ELSE <<>>)
          ELSE IF timed_out(call.elapsed + dt)
               THEN Running([call EXCEPT !.raised = TRUE], <<>>)
               ELSE Running([call EXCEPT !.elapsed = @ + dt], <<>>)

(* The operation ends: it returns (or raises what it raises with BUSY low) *)
(* after its last statement, or the error of wait_ready reaches the        *)
(* caller.  The fields are those of the operation run as a whole with BUSY *)
(* staying high at that wait or before that transfer.                      *)
EndOperation ==
    /\ call.op = "running"
    /\ call.raised \/ (call.pc = "next" /\ AtEnd)
    /\ Store(Run(call.o,
                 IF call.raised /\ call.pc = "wait" THEN call.waits + 1 ELSE 0,
                 IF call.raised /\ call.pc = "busy" THEN Len(trace) + 1 ELSE 0),
             call.o @@ [polled |-> TRUE])

InitBusy ==
    /\ InitDriver
    /\ has_miso = TRUE
    /\ depth = 1
    /\ fb = FrameBuffer(depth, 90)
    /\ text = TextRenderer(MaxCache)

NextBusy ==
    \/ \E c \in BOOLEAN : \E f \in FailPoints(2) : CallInit(c, f)
    \/ \E full \in BOOLEAN : \E f \in {0, 3} : CallDisplay(White, full, FALSE, FALSE, f)
    \/ CallSleep(TRUE, 0)
    \/ \E o \in Operations : StartOperation(o)
    \/ EnterWait
    \/ Transfer
    \/ Poll
    \/ EndOperation
    \/ (call.op # "running" /\ "polled" \notin DOMAIN call /\ Return)

SpecBusy == InitBusy /\ [][NextBusy]_vars

(* The steps a running operation has left at most: TimeoutTicks + 3 for    *)
(* each statement of the plan not yet done, and the turns left to the      *)
(* polling loop it is in.                                                  *)
StepsLeft(c, sent) ==
    IF c.raised THEN 0
    ELSE (Len(c.plan.transfers) + Len(c.plan.wait_at) - Len(sent) - c.waits)
             * (TimeoutTicks + 3)
         + (IF c.pc = "next" THEN TimeoutTicks + 3 ELSE TimeoutTicks + 2 - c.elapsed)

(* C30: every driver operation terminates.  A polling loop never runs past *)
(* its timeout, what is on the wire is the beginning of what the operation *)
(* sends when BUSY always goes low, and every step of a running operation  *)
(* brings it nearer to its end (the steps left decrease and are never      *)
(* negative).  The operation ends with the timeout error exactly when BUSY *)
(* stayed high until wait_ready raised; the error reaches the caller with  *)
(* nothing more put on the wire, so nothing is sent again after the        *)
(* timeout, and no refresh is completed or started again.                  *)
C30_OperationsTerminate ==
    /\ [](call.op = "running" =>
              /\ call.elapsed <= TimeoutTicks
              /\ trace = SubSeq(Run(call.o, 0, 0).trace, 1, Len(trace))
              /\ call.waits <= Run(call.o, 0, 0).waits
              /\ call.raised \/ call.pc # "next" \/ NextIsWait \/ NextIsTransfer \/ AtEnd
              /\ err = "none")
    /\ [][call.op = "running" =>
              IF call'.op = "running"
              THEN /\ StepsLeft(call', trace') < StepsLeft(call, trace)
                   /\ StepsLeft(call', trace') >= 0
              ELSE /\ trace' = trace
                   /\ call.raised <=> (err' = "Timeout")
                   /\ call.raised =>
                         /\ Len(refreshed') <= Len(call.plan.refreshed)
                         /\ refreshed' = SubSeq(call.plan.refreshed, 1, Len(refreshed'))]_vars

(* a refresh was started and BUSY stayed high: the operation ended with    *)
(* the timeout error, the activation being the last thing it sent          *)
C30_Witness ==
    /\ call.op = "display"
    /\ "polled" \in DOMAIN call
    /\ err = "Timeout"
    /\ trace # <<>>
    /\ trace[Len(trace)].cmd = CMD_ACTIVATE
    /\ Len(trace) >= 2
    /\ trace[Len(trace) - 1] = [cmd |-> CMD_UPDATE_CTRL2, data |-> <<SEQ_FULL>>]

-----------------------------------------------------------------------------
(* C31: whenever a refresh is activated, the border waveform last written  *)
(* since the most recent reset matches the refresh kind: BORDER_PARTIAL    *)
(* for a partial activation, BORDER_FULL with the full-frame window for a  *)
(* full or custom-LUT activation.                                          *)
C31_ConfiguredForRefreshKind ==
    call # Idle =>
        \A i \in RefreshActivations :
            LET p == PanelAfter(pre.panel, trace, i - 1)
            IN  IF trace[i - 1].data = <<SEQ_PARTIAL>>
                THEN p.border = BORDER_PARTIAL
                ELSE /\ p.border = BORDER_FULL
                     /\ p.xs = 0 /\ p.xe = WIDTH \div 8 - 1
                     /\ p.ys = 0 /\ p.ye = HEIGHT - 1

-----------------------------------------------------------------------------
(* C32: hline and vline change exactly the pixels of the line that lie     *)
(* inside the logical bounds to the effective color and leave every other  *)
(* pixel as it was: the buffer is the one that pixel() called on each      *)
(* point of the line leaves, at every rotation and depth; a line outside   *)
(* the viewport changes nothing.                                           *)
C32_LinesAsPixels ==
    call.op \in {"hline", "vline"} =>
        LET a == call.args
            pt(i) == IF call.op = "hline" THEN <<a.x + i, a.y>> ELSE <<a.x, a.y + i>>
            RECURSIVE each(_, _)
            each(b, i) == IF i >= a.length THEN b
                          ELSE each(pixel(b, pt(i)[1], pt(i)[2], a.color), i + 1)
            Points == {pt(i) : i \in 0..(a.length - 1)}
        IN  /\ err = "none"
            /\ fb.buffer = each(call.before, 0).buffer
            /\ \A p \in Viewport :
                  get_pixel(fb, p[1], p[2]) =
                     IF p \in Points THEN _effective_color(call.before, a.color)
                     ELSE get_pixel(call.before, p[1], p[2])

-----------------------------------------------------------------------------
(* C33: each glyph lookup of a call, taken in order.  A hit returns the    *)
(* cached glyph, moves its item to the end, evicts nothing and reads no    *)
(* font file.  A miss that finds the glyph reads it once, pops items from  *)
(* the front (the least recently used first) only while the new glyph      *)
(* does not fit, and appends the new item.  A miss that finds no glyph     *)
(* changes nothing.                                                        *)
C33_LruEviction ==
    (call.op \in {"preload_glyphs", "measure_width"}
        /\ ~(call.op = "measure_width" /\ (text.fonts = <<>> \/ call.args.chars = <<>>)))
    =>  LET chars == call.args.chars
            at(k) == get_glyphs(call.before, SubSeq(chars, 1, k)).t
        IN  /\ text.cache = at(Len(chars)).cache
            /\ call.reads = at(Len(chars)).reads
            /\ \A k \in 1..Len(chars) :
                  LET t0 == at(k - 1)
                      t1 == at(k)
                      g == call.args.glyphs[k]
                      old == t0.cache
                      n == Len(old) + 1 - Len(t1.cache)
                  IN  IF \E i \in 1..Len(old) : old[i].cp = chars[k]
                      THEN \E i \in 1..Len(old) :
                              /\ old[i].cp = chars[k]
                              /\ g = old[i].res
                              /\ t1.cache = SubSeq(old, 1, i - 1)
                                               \o SubSeq(old, i + 1, Len(old))
                                               \o <<old[i]>>
                              /\ t1.reads = t0.reads
                              /\ t1.cache_size = t0.cache_size
                      ELSE IF g = <<>> THEN t1 = t0
                      ELSE /\ t1.reads = t0.reads + 1
                           /\ n \in 0..Len(old)
                           /\ t1.cache = SubSeq(old, n + 1, Len(old))
                                            \o <<[cp |-> chars[k], res |-> g]>>
                           /\ n > 0 => CachedBytes(SubSeq(old, n, Len(old)))
                                          + Len(g.data) > t0.cache_max
                           /\ n < Len(old) => CachedBytes(SubSeq(old, n + 1, Len(old)))
                                                 + Len(g.data) <= t0.cache_max

(* a hit on the first of two cached glyphs, then a miss that evicts the    *)
(* other one (now the least recently used) and keeps the glyph just hit    *)
C33_Witness ==
    /\ call.op = "preload_glyphs"
    /\ Len(call.args.chars) = 2
    /\ Len(call.before.cache) = 2
    /\ call.before.cache[1].cp = call.args.chars[1]
    /\ call.reads = 1
    /\ Len(text.cache) = 2
    /\ text.cache[1] = call.before.cache[1]
    /\ text.cache[2].cp = call.args.chars[2]

-----------------------------------------------------------------------------
(* C34: in every state the public operations reach, has_basemap implies    *)
(* not is_initial, so that has_basemap alone (the test of display_regions) *)
(* is can_partial_refresh(); and is_initial, once false, stays false.      *)
C34_BasemapImpliesNotInitial ==
    /\ [](has_basemap => ~is_initial)
    /\ [](can_partial_refresh([has_basemap |-> has_basemap,
                               is_initial |-> is_initial]) <=> has_basemap)
    /\ [][~is_initial => ~is_initial']_vars

(* display_regions passed its has_basemap test and refreshed partially *)
C34_Witness ==
    /\ call.op = "display_regions"
    /\ err = "none"
    /\ Activations(SEQ_PARTIAL) # {}
    /\ pre.has_basemap
    /\ ~pre.is_initial

-----------------------------------------------------------------------------
(* C35: with partial_threshold = T > 0 left as it is and partial_count     *)
(* never set by the caller, partial_count never exceeds T, whatever        *)
(* display, region, clear, sleep and wake calls are made.                  *)
C35_CountWithinThreshold ==
    (partial_threshold = MaxThreshold /\ MaxThreshold > 0)
        => partial_count <= partial_threshold

-----------------------------------------------------------------------------
(* C36: nothing is sent to the controller between a DEEP_SLEEP command and *)
(* the next hardware reset, and the driver is SLEEPING exactly when the    *)
(* controller is in deep sleep.  The controller is in deep sleep after n   *)
(* transfers of the call when the last DEEP_SLEEP or hardware reset among  *)
(* them is a DEEP_SLEEP, or, if there is none, when the driver was         *)
(* SLEEPING as the call began.                                             *)
C36_NothingSentInDeepSleep ==
    call # Idle =>
        LET marks(n) == {j \in 1..n : trace[j].cmd \in {CMD_DEEP_SLEEP, HW_RESET}}
            last(n) == CHOOSE j \in marks(n) : \A k \in marks(n) : k <= j
            asleep(n) == IF marks(n) = {} THEN pre.state = SLEEPING
                         ELSE trace[last(n)].cmd = CMD_DEEP_SLEEP
        IN  /\ \A i \in 1..Len(trace) : trace[i].cmd # HW_RESET => ~asleep(i - 1)
            /\ (state = SLEEPING) <=> asleep(Len(trace))

-----------------------------------------------------------------------------
(* C37: when the BUSY wait that follows the ACTIVATE of a refresh times    *)
(* out, the call raises with has_basemap, is_initial and partial_count as  *)
(* they were before the call, no DEEP_SLEEP sent, and needs_full_refresh() *)
(* (the decision of a later display(full=False)) as before the call.       *)
C37_FailedRefreshNotCounted ==
    (call # Idle /\ trace # <<>> /\ Len(trace) \in RefreshActivations
        /\ err = "Timeout")
    =>  /\ has_basemap = pre.has_basemap
        /\ is_initial = pre.is_initial
        /\ partial_count = pre.partial_count
        /\ Sent(CMD_DEEP_SLEEP) = {}
        /\ needs_full_refresh([is_initial |-> is_initial, has_basemap |-> has_basemap,
                               partial_threshold |-> partial_threshold,
                               partial_count |-> partial_count])
              <=> needs_full_refresh(pre)

(* a region update on a basemap, one partial refresh already counted,      *)
(* whose partial activation timed out                                      *)
C37_Witness ==
    /\ call.op = "display_region"
    /\ err = "Timeout"
    /\ trace # <<>>
    /\ Len(trace) \in Activations(SEQ_PARTIAL)
    /\ pre.has_basemap
    /\ pre.partial_count >= 1

-----------------------------------------------------------------------------
(* TextRenderer.draw on the frame buffer.  The call record keeps the       *)
(* renderer and the buffer as they were and the glyphs looked up.          *)
CallDraw(chars, x, y, color, scale, align) ==
    LET r == draw(text, fb, chars, x, y, color, scale, align)
    IN  /\ call = Idle
        /\ Blank(fb)
        /\ text' = [r.t EXCEPT !.err = "none", !.reads = 0]
        /\ fb' = [r.b EXCEPT !.err = "none", !.stray = FALSE]
        /\ err' = IF r.t.err # "none" THEN r.t.err ELSE r.b.err
        /\ call' = [op |-> "draw", chars |-> chars, x |-> x, y |-> y,
                    color |-> color, scale |-> scale, align |-> align,
                    before |-> text, fb |-> fb, glyphs |-> r.res,
                    result |-> r.width]
        /\ UNCHANGED <<state, has_basemap, partial_count, partial_threshold,
                       in_partial_mode, is_initial, prev_buffer, panel, trace,
                       refreshed, during, pre, last_refresh, partials_since_full,
                       has_miso, depth, inversion>>

DrawStrings == {<<>>, <<3>>, <<4, 3>>, <<3, 2>>}
Aligns == {"left", "center", "right"}

(* A renderer over a FrameBuffer of either depth, no font loaded yet.     *)
(* The text is drawn at scale 1 with every alignment, at scale 2 from the  *)
(* left.                                                                   *)
InitDraw ==
    /\ InitDriver
    /\ prev_buffer = <<>>
    /\ has_miso = FALSE
    /\ depth \in {1, 2}
    /\ fb = FrameBuffer(depth, 90)
    /\ text = TextRenderer(MaxCache)

NextDraw ==
    \/ \E r \in Rotations : SetRotation(r)
    \/ \E c \in {BLACK, WHITE} : CallBufferClear(c)
    \/ \E path \in {"b", "c"} : CallLoadFont(path)
    \/ \E chars \in DrawStrings, x \in Coords(width(fb)), y \in {-1, 0, height(fb) - 1},
          color \in ShapeColors, scale \in {1, 2}, align \in Aligns :
          /\ scale = 1 \/ align = "left"
          /\ CallDraw(chars, x, y, color, scale, align)
    \/ Return

SpecDraw == InitDraw /\ [][NextDraw]_vars

(* The buffer after DrawBuffer.blit of each glyph of the call, from glyph  *)
(* i on, at the pen position cx where draw rendered it.                    *)
RECURSIVE BlitGlyphs(_, _, _)
BlitGlyphs(b, i, cx) ==
    IF i > Len(call.glyphs) THEN b
    ELSE IF call.glyphs[i] = <<>>
    THEN BlitGlyphs(b, i + 1, cx + call.before.fonts[1].def_w)
    ELSE LET g == call.glyphs[i]
         IN  BlitGlyphs(blit(b, g.data, cx, call.y, g.w, g.h, call.color),
                        i + 1, cx + g.w + 1)

(* C38: a glyph rendered by TextRenderer at scale 1 changes the buffer     *)
(* exactly as DrawBuffer.blit of the same bitmap at the same logical       *)
(* position and color, at every rotation and both depths, also when the    *)
(* glyph lies partly outside the viewport.                                 *)
C38_RenderAsBlit ==
    (call.op = "draw" /\ call.scale = 1 /\ call.glyphs # <<>>) =>
        LET x0 == IF call.align = "center" THEN call.x - (call.result \div 2)
                  ELSE IF call.align = "right" THEN call.x - call.result
                  ELSE call.x
            b == BlitGlyphs(call.fb, 1, x0)
        IN  /\ fb.buffer = b.buffer
            /\ err = b.err

=============================================================================
